---- MODULE Spec2Model ----
(***************************************************************************)
(* Subscription / entitlement reconciliation of affirm-dreams-backend.     *)
(*                                                                         *)
(* State: the two MongoDB collections the handlers write (payments,        *)
(* subscriptions), the HTTP response of the last request, the request      *)
(* itself, the number of requests handled and the requests in flight       *)
(* between their two database writes (both used only by the specification  *)
(* that interleaves requests).  One action per route handler.  Webhook     *)
(* deliveries are those that pass the Authorization check.                 *)
(* The repository holds two                                                *)
(* RevenueCat webhook handlers (routes/revenuecatWebhook.ts, kept in       *)
(* src/src/routes/account.ts, and routes/webhooksRevenuecat.ts, kept in    *)
(* src/src/routes/revenuecatWebhook.ts) and two /subscription/activate     *)
(* handlers (src/src/routes/subscription.ts lines 111-232 and 432-491);    *)
(* each is modelled as its own action.                                     *)
(*                                                                         *)
(* Encoding.  Strings that the code searches with String.includes          *)
(* (product ids, store names) are sequences of tokens, and includes is     *)
(* token membership.  Dates are epoch numbers.  JavaScript undefined is    *)
(* Undefined for strings and UndefinedNum for numbers; an absent document  *)
(* field holds the same value.  Mongoose (6 and later) removes every key   *)
(* whose value is undefined from an update document before it is sent, so  *)
(* such a key leaves the stored field as it was (OmitUndefined).           *)
(* The updatedAt / createdAt timestamps that Mongoose maintains are not    *)
(* part of the model.                                                      *)
(***************************************************************************)
EXTENDS Integers, Sequences, FiniteSets, TLC

VARIABLES payments, subs, resp, last, handled, inflight

vars == <<payments, subs, resp, last, handled, inflight>>

-----------------------------------------------------------------------------
(* Bounds and value domains *)

MaxTime == 2

MaxHandled == 3

\* requests in flight at once
MaxInflight == 2

Times == 1..MaxTime

Users == {"u1", "u2"}

TxIds == {"t1", "t2"}

Undefined == "undefined"

UndefinedNum == -1000

Null == -2000

NullDoc == [isNull |-> TRUE]

UndefinedDoc == [isUndefined |-> TRUE]

NoShape == [none |-> TRUE]

PMonthly == <<"pkg", ".monthly">>

PYearly == <<"pkg", ".yearly">>

PLifetime == <<"pkg", ".lifetime">>

PPlain == <<"pkg", ".pro">>

PYearlyMonthly == <<"pkg", ".yearly", ".monthly">>

NoProduct == << >>

Unknown == <<"unknown">>

NoStore == << >>

AppStore == <<"APP_STORE">>

PlayStore == <<"PLAY", "_STORE">>

Stripe == <<"STRIPE">>

Amazon == <<"AMAZON">>

-----------------------------------------------------------------------------
(* String helpers *)

includes(s, tok) == \E i \in DOMAIN s : s[i] = tok

toLowerCaseTok(t) ==
  CASE t = "APP_STORE" -> "app_store"
    [] t = "PLAY" -> "play"
    [] t = "_STORE" -> "_store"
    [] t = "STRIPE" -> "stripe"
    [] t = "AMAZON" -> "amazon"
    [] t = "GOOGLE" -> "google"
    [] t = "APPLE" -> "apple"
    [] t = "IOS" -> "ios"
    [] t = "Stripe" -> "stripe"
    [] OTHER -> t

toLowerCase(s) == [i \in DOMAIN s |-> toLowerCaseTok(s[i])]

toUpperCase(c) ==
  CASE c = "usd" -> "USD"
    [] c = "eur" -> "EUR"
    [] c = "customer_support" -> "CUSTOMER_SUPPORT"
    [] c = "unsubscribe" -> "UNSUBSCRIBE"
    [] c = Undefined -> ""
    [] OTHER -> c

trim(v) ==
  CASE v = " " -> ""
    [] v = " u1 " -> "u1"
    [] OTHER -> v

\* faulty variant: the value as it came
safeStringRaw(v) == v

safeString(v) ==
  IF v # Undefined /\ trim(v) # "" THEN trim(v) ELSE Undefined

-----------------------------------------------------------------------------
(* routes/revenuecatWebhook.ts helpers *)

\* faulty variant: the yearly marker is looked for before the monthly one
planFromProductIdYearlyFirst(productId) ==
  IF productId = NoProduct THEN "free"
  ELSE IF includes(productId, ".yearly") THEN "yearly"
  ELSE IF includes(productId, ".monthly") THEN "monthly"
  ELSE IF includes(productId, ".lifetime") THEN "lifetime"
  ELSE "free"

planFromProductId(productId) ==
  IF productId = NoProduct THEN "free"
  ELSE IF includes(productId, ".monthly") THEN "monthly"
  ELSE IF includes(productId, ".yearly") THEN "yearly"
  ELSE IF includes(productId, ".lifetime") THEN "lifetime"
  ELSE "free"

\* faulty variant: the App Store names are looked for before the Play names
providerFromStoreAppleFirst(store) ==
  LET s == toLowerCase(store) IN
  IF includes(s, "app_store") \/ includes(s, "apple") \/ includes(s, "ios")
    THEN "app_store"
  ELSE IF includes(s, "play") \/ includes(s, "google") THEN "google_play"
  ELSE IF includes(s, "stripe") THEN "stripe"
  ELSE "promo"

providerFromStore(store) ==
  LET s == toLowerCase(store) IN
  IF includes(s, "play") \/ includes(s, "google") THEN "google_play"
  ELSE IF includes(s, "app_store") \/ includes(s, "apple") \/ includes(s, "ios")
    THEN "app_store"
  ELSE IF includes(s, "stripe") THEN "stripe"
  ELSE "promo"

subSourceFromProvider(provider) ==
  IF provider = "google_play" THEN "google_play"
  ELSE IF provider = "app_store" THEN "app_store"
  ELSE IF provider = "stripe" THEN "stripe"
  ELSE "admin"

platformFromProvider(provider) ==
  IF provider = "app_store" THEN "ios"
  ELSE IF provider = "google_play" THEN "android"
  ELSE "web"

\* the modelled events carry none of the fallback fields (price_currency, ...)
pickCurrency(event) ==
  LET c == IF safeString(event.currency) # Undefined
           THEN safeString(event.currency) ELSE "USD"
  IN toUpperCase(c)

\* price is a number of thousandths; Math.round(v * 100) rounds half up
toCentsFromUnknown(v) ==
  IF v # UndefinedNum THEN (v + 5) \div 10 ELSE Null

\* of the four candidates the modelled events carry only price
extractAmountCents(event) ==
  LET cents == toCentsFromUnknown(event.price) IN
  IF cents # Null /\ cents >= 0 THEN cents ELSE Null

\* faulty variant: a classifier that takes every type for a purchase
isPurchaseLikeEventAny(type) == TRUE

isPurchaseLikeEvent(type) ==
  \/ type = "INITIAL_PURCHASE"
  \/ type = "RENEWAL"
  \/ type = "NON_RENEWING_PURCHASE"
  \/ type = "UNCANCELLATION"
  \/ type = "PRODUCT_CHANGE"

\* faulty variant: a classifier that knows REFUND only
isRefundLikeEventRefundOnly(type, cancelReason) == type = "REFUND"

isRefundLikeEvent(type, cancelReason) ==
  LET r == toUpperCase(cancelReason) IN
  IF type = "REFUND" \/ type = "REVOCATION" THEN TRUE
  ELSE IF type = "CANCELLATION" /\ r = "CUSTOMER_SUPPORT" THEN TRUE
  ELSE FALSE

-----------------------------------------------------------------------------
(* Mongoose / MongoDB update semantics *)

NumKeys == {"amountCents", "purchasedAt", "expiresAt", "startedAt", "renewsAt",
            "canceledAt", "latestPaymentId", "id"}

SeqKeys == {"productId"}

UndefinedOf(k) ==
  IF k \in NumKeys THEN UndefinedNum
  ELSE IF k \in SeqKeys THEN NoProduct
  ELSE IF k = "rawPayload" THEN UndefinedDoc
  ELSE Undefined

\* castUpdate deletes the keys of an update whose value is undefined
OmitUndefined(upd) ==
  [k \in {j \in DOMAIN upd : upd[j] # UndefinedOf(j)} |-> upd[k]]

SubKeys == {"userId", "plan", "status", "source", "startedAt", "renewsAt",
            "canceledAt", "latestPaymentId"}

SubDefault(k) ==
  CASE k = "plan" -> "free"
    [] k = "status" -> "inactive"
    [] k = "source" -> "admin"
    [] OTHER -> UndefinedOf(k)

PaymentKeys == {"id", "userId", "platform", "provider", "productId",
                "transactionId", "originalTransactionId", "amountCents",
                "currency", "purchasedAt", "expiresAt", "rawPayload"}

\* the document an update leaves: the keys it sets, the others as they were
ApplyUpdate(doc, upd) ==
  [k \in DOMAIN doc |-> IF k \in DOMAIN upd THEN upd[k] ELSE doc[k]]

NewSub(upd) ==
  [k \in SubKeys |-> IF k \in DOMAIN upd THEN upd[k] ELSE SubDefault(k)]

NewPayment(P, upd) ==
  [k \in PaymentKeys |->
     IF k = "id" THEN Cardinality(P) + 1
     ELSE IF k \in DOMAIN upd THEN upd[k] ELSE UndefinedOf(k)]

SubsOf(S, userId) == {d \in S : d.userId = userId}

PaymentsOf(P, transactionId) == {d \in P : d.transactionId = transactionId}

\* Model.findOne(filter).exec(): a matching document or null
FindOneSub(S, userId) ==
  IF SubsOf(S, userId) = {} THEN NullDoc
  ELSE CHOOSE d \in SubsOf(S, userId) : TRUE

FindOnePayment(P, transactionId) ==
  IF PaymentsOf(P, transactionId) = {} THEN NullDoc
  ELSE CHOOSE d \in PaymentsOf(P, transactionId) : TRUE

\* SubscriptionModel.findOneAndUpdate({userId}, upd, {upsert: true, new: true})
SubFindOneAndUpdate(S, userId, upd) ==
  LET set == OmitUndefined(upd)
      old == FindOneSub(S, userId)
  IN IF old = NullDoc THEN S \cup {NewSub(set)}
     ELSE (S \ {old}) \cup {ApplyUpdate(old, set)}

\* faulty variant: an upsert that inserts without looking for the row
PaymentUpdateOneInsert(P, transactionId, setOnInsert, set) ==
  P \cup {NewPayment(P, [k \in DOMAIN setOnInsert \cup DOMAIN set |->
                           IF k \in DOMAIN set THEN set[k] ELSE setOnInsert[k]])}

\* faulty variant: an upsert that applies $setOnInsert to a row it found
PaymentUpdateOneSetAll(P, transactionId, setOnInsert, set) ==
  LET all == OmitUndefined([k \in DOMAIN setOnInsert \cup DOMAIN set |->
                              IF k \in DOMAIN set THEN set[k] ELSE setOnInsert[k]])
      old == FindOnePayment(P, transactionId)
  IN IF old = NullDoc THEN P \cup {NewPayment(P, all)}
     ELSE (P \ {old}) \cup {ApplyUpdate(old, all)}

\* PaymentModel.updateOne({transactionId}, {$setOnInsert, $set}, {upsert: true})
PaymentUpdateOne(P, transactionId, setOnInsert, set) ==
  LET onInsert == OmitUndefined(setOnInsert)
      always == OmitUndefined(set)
      old == FindOnePayment(P, transactionId)
      inserted == [k \in DOMAIN onInsert \cup DOMAIN always |->
                     IF k \in DOMAIN always THEN always[k] ELSE onInsert[k]]
  IN IF old = NullDoc THEN P \cup {NewPayment(P, inserted)}
     ELSE (P \ {old}) \cup {ApplyUpdate(old, always)}

-----------------------------------------------------------------------------
(* Entitlement projection *)

StorageLimitGb == 10

\* faulty variant: no row is shown as a row without a status
toClientShapeAbsentUnknown(doc) ==
  IF doc = NullDoc
  THEN [plan |-> "free", status |-> "none", autoRenew |-> FALSE,
        periodEnd |-> Null, storageLimitGb |-> Null]
  ELSE LET isLifetime == doc.plan = "lifetime"
           periodEnd == IF doc.renewsAt # UndefinedNum THEN doc.renewsAt ELSE Null
           autoRenew == ~isLifetime /\ doc.plan # "free" /\ doc.status = "active"
       IN [plan |-> doc.plan, status |-> doc.status, autoRenew |-> autoRenew,
           periodEnd |-> periodEnd,
           storageLimitGb |-> IF isLifetime THEN StorageLimitGb ELSE Null]

\* faulty variant: only the free plan is exempt from renewal
toClientShapeLifetimeRenews(doc) ==
  IF doc = NullDoc
  THEN [plan |-> "free", status |-> "inactive", autoRenew |-> FALSE,
        periodEnd |-> Null, storageLimitGb |-> Null]
  ELSE LET isLifetime == doc.plan = "lifetime"
           periodEnd == IF doc.renewsAt # UndefinedNum THEN doc.renewsAt ELSE Null
           autoRenew == doc.plan # "free" /\ doc.status = "active"
       IN [plan |-> doc.plan, status |-> doc.status, autoRenew |-> autoRenew,
           periodEnd |-> periodEnd,
           storageLimitGb |-> IF isLifetime THEN StorageLimitGb ELSE Null]

toClientShape(doc) ==
  IF doc = NullDoc
  THEN [plan |-> "free", status |-> "inactive", autoRenew |-> FALSE,
        periodEnd |-> Null, storageLimitGb |-> Null]
  ELSE LET isLifetime == doc.plan = "lifetime"
           periodEnd == IF doc.renewsAt # UndefinedNum THEN doc.renewsAt ELSE Null
           autoRenew == ~isLifetime /\ doc.plan # "free" /\ doc.status = "active"
       IN [plan |-> doc.plan, status |-> doc.status, autoRenew |-> autoRenew,
           periodEnd |-> periodEnd,
           storageLimitGb |-> IF isLifetime THEN StorageLimitGb ELSE Null]

Response(code, tag, shape) == [code |-> code, tag |-> tag, shape |-> shape]

Request(op, user, arg, now) == [op |-> op, user |-> user, arg |-> arg, now |-> now]

-----------------------------------------------------------------------------
(* POST /webhooks/revenuecat, routes/revenuecatWebhook.ts *)

WhUserId(event) == safeString(event.app_user_id)

WhProductId(event) == event.product_id

WhTransactionId(event) == safeString(event.transaction_id)

WhExpirationAtMs(event) ==
  IF event.expiration_at_ms # UndefinedNum THEN event.expiration_at_ms ELSE Null

WhPurchasedAtMs(event) ==
  IF event.purchased_at_ms # UndefinedNum THEN event.purchased_at_ms ELSE Null

\* expirationAtMs ? new Date(expirationAtMs) : undefined  (0 and null are falsy)
WhRenewsAt(event) ==
  IF WhExpirationAtMs(event) # Null /\ WhExpirationAtMs(event) # 0
  THEN WhExpirationAtMs(event) ELSE UndefinedNum

WhStartedAt(event, now) ==
  IF WhPurchasedAtMs(event) # Null /\ WhPurchasedAtMs(event) # 0
  THEN WhPurchasedAtMs(event) ELSE now

WhProvider(event) == providerFromStore(event.store)

WhSource(event) == subSourceFromProvider(WhProvider(event))

WhAction(event) ==
  IF event.type = Undefined THEN "missing_event"
  ELSE IF WhUserId(event) = Undefined THEN "skipped"
  ELSE IF isPurchaseLikeEvent(event.type) THEN "purchase"
  ELSE IF isRefundLikeEvent(event.type, safeString(event.cancel_reason)) THEN "refund"
  ELSE IF event.type = "CANCELLATION" THEN "cancellation"
  ELSE IF event.type = "EXPIRATION" THEN "expiration"
  ELSE "ignored"

WhLedgerSetOnInsert(event) ==
  [userId |-> WhUserId(event),
   platform |-> platformFromProvider(WhProvider(event)),
   provider |-> WhProvider(event),
   productId |-> IF WhProductId(event) # NoProduct THEN WhProductId(event) ELSE Unknown,
   transactionId |-> WhTransactionId(event),
   originalTransactionId |-> safeString(event.original_transaction_id)]

WhLedgerSet(event, now) ==
  [amountCents |-> IF extractAmountCents(event) # Null
                   THEN extractAmountCents(event) ELSE 0,
   currency |-> pickCurrency(event),
   purchasedAt |-> WhStartedAt(event, now),
   expiresAt |-> WhRenewsAt(event),
   rawPayload |-> event]

\* faulty variant: a purchase without a transaction id is recorded as well
WhPaymentsUnkeyed(P, event, now) ==
  IF WhAction(event) = "purchase"
  THEN PaymentUpdateOne(P, IF WhTransactionId(event) # Undefined
                           THEN WhTransactionId(event) ELSE "t2",
                        WhLedgerSetOnInsert(event), WhLedgerSet(event, now))
  ELSE P

WhPayments(P, event, now) ==
  IF WhAction(event) = "purchase" /\ WhTransactionId(event) # Undefined
  THEN PaymentUpdateOne(P, WhTransactionId(event),
                        WhLedgerSetOnInsert(event), WhLedgerSet(event, now))
  ELSE P

\* faulty variant: every branch writes what the cancellation branch writes
WhSubUpdateAsCancellation(event, now) ==
  [userId |-> WhUserId(event), plan |-> planFromProductId(WhProductId(event)),
   status |-> "canceled", source |-> WhSource(event),
   renewsAt |-> WhRenewsAt(event), canceledAt |-> now]

\* faulty variant: expiration changes the status and leaves the plan
WhSubUpdateExpirationKeepsPlan(event, now) ==
  CASE WhAction(event) = "purchase" ->
         [userId |-> WhUserId(event), plan |-> planFromProductId(WhProductId(event)),
          status |-> "active", source |-> WhSource(event),
          startedAt |-> WhStartedAt(event, now), renewsAt |-> WhRenewsAt(event),
          canceledAt |-> UndefinedNum]
    [] WhAction(event) = "refund" ->
         [userId |-> WhUserId(event), plan |-> "free", status |-> "inactive",
          source |-> WhSource(event), renewsAt |-> UndefinedNum, canceledAt |-> now]
    [] WhAction(event) = "cancellation" ->
         [userId |-> WhUserId(event), plan |-> planFromProductId(WhProductId(event)),
          status |-> "canceled", source |-> WhSource(event),
          renewsAt |-> WhRenewsAt(event), canceledAt |-> now]
    [] WhAction(event) = "expiration" ->
         [userId |-> WhUserId(event), status |-> "expired",
          source |-> WhSource(event), renewsAt |-> UndefinedNum, canceledAt |-> now]

WhSubUpdate(event, now) ==
  CASE WhAction(event) = "purchase" ->
         [userId |-> WhUserId(event), plan |-> planFromProductId(WhProductId(event)),
          status |-> "active", source |-> WhSource(event),
          startedAt |-> WhStartedAt(event, now), renewsAt |-> WhRenewsAt(event),
          canceledAt |-> UndefinedNum]
    [] WhAction(event) = "refund" ->
         [userId |-> WhUserId(event), plan |-> "free", status |-> "inactive",
          source |-> WhSource(event), renewsAt |-> UndefinedNum, canceledAt |-> now]
    [] WhAction(event) = "cancellation" ->
         [userId |-> WhUserId(event), plan |-> planFromProductId(WhProductId(event)),
          status |-> "canceled", source |-> WhSource(event),
          renewsAt |-> WhRenewsAt(event), canceledAt |-> now]
    [] WhAction(event) = "expiration" ->
         [userId |-> WhUserId(event), plan |-> "free", status |-> "expired",
          source |-> WhSource(event), renewsAt |-> UndefinedNum, canceledAt |-> now]

WhSubs(S, event, now) ==
  IF WhAction(event) \in {"purchase", "refund", "cancellation", "expiration"}
  THEN SubFindOneAndUpdate(S, WhUserId(event), WhSubUpdate(event, now))
  ELSE S

WhResponse(event) ==
  CASE WhAction(event) = "missing_event" -> Response(400, "missing_event", NoShape)
    [] WhAction(event) = "skipped" -> Response(200, "skipped", NoShape)
    [] WhAction(event) = "purchase" -> Response(200, "ok", NoShape)
    [] WhAction(event) = "refund" -> Response(200, "revoked", NoShape)
    [] WhAction(event) = "cancellation" -> Response(200, "canceled", NoShape)
    [] WhAction(event) = "expiration" -> Response(200, "expired", NoShape)
    [] OTHER -> Response(200, "ignored", NoShape)

Webhook(event, now) ==
  /\ payments' = WhPayments(payments, event, now)
  /\ subs' = WhSubs(subs, event, now)
  /\ resp' = WhResponse(event)
  /\ last' = Request("webhook", WhUserId(event), event, now)

\* The Authorization check.  A header value or a configured secret is a
\* sequence of tokens: a scheme token ("Bearer ", in any case), the secret,
\* blanks; the empty sequence is the empty string, an absent header or an
\* unset variable.
RECURSIVE trimStart(_)
trimStart(s) == IF s # << >> /\ Head(s) = " " THEN trimStart(Tail(s)) ELSE s

RECURSIVE trimEnd(_)
trimEnd(s) ==
  IF s # << >> /\ s[Len(s)] = " " THEN trimEnd(SubSeq(s, 1, Len(s) - 1)) ELSE s

normalizeAuthHeader(v) ==
  LET s == trimEnd(trimStart(v)) IN
  IF s = << >> THEN << >>
  ELSE IF Len(s) > 1 /\ Head(s) \in {"Bearer ", "bearer ", "BEARER "}
    THEN trimEnd(trimStart(Tail(s)))
  ELSE s

\* faulty variant: a comparison of the lengths alone
timingSafeEqualLength(a, b) == Len(a) = Len(b)

\* equal length and equal bytes
timingSafeEqual(a, b) == Len(a) = Len(b) /\ a = b

\* the delivery is answered 401
WhUnauthorized(expectedRaw, authorization) ==
  /\ expectedRaw # << >>
  /\ LET expected == normalizeAuthHeader(expectedRaw)
         got == normalizeAuthHeader(authorization)
     IN expected = << >> \/ got = << >> \/ ~timingSafeEqual(got, expected)

\* the handler from its first line: REVENUECAT_WEBHOOK_AUTH is read from the
\* environment at every request
DeliverWebhook(expectedRaw, authorization, event, now) ==
  /\ payments' = IF WhUnauthorized(expectedRaw, authorization) THEN payments
                 ELSE WhPayments(payments, event, now)
  /\ subs' = IF WhUnauthorized(expectedRaw, authorization) THEN subs
             ELSE WhSubs(subs, event, now)
  /\ resp' = IF WhUnauthorized(expectedRaw, authorization)
             THEN Response(401, "unauthorized", NoShape)
             ELSE WhResponse(event)
  /\ last' = Request("delivery", WhUserId(event),
                     [event |-> event, secret |-> expectedRaw,
                      authorization |-> authorization], now)

-----------------------------------------------------------------------------
(* POST /webhooks/revenuecat, routes/webhooksRevenuecat.ts *)

\* !v for a string: undefined and the empty string are falsy
falsy(v) == v = Undefined \/ v = ""

OldWhAction(event) ==
  IF event.type = Undefined THEN "missing_event"
  ELSE IF falsy(event.app_user_id) THEN "skipped"
  ELSE IF isPurchaseLikeEvent(event.type) THEN "purchase"
  ELSE IF event.type = "CANCELLATION" /\ event.cancel_reason = "CUSTOMER_SUPPORT"
    THEN "refund"
  ELSE IF event.type = "CANCELLATION" THEN "cancellation"
  ELSE IF event.type = "EXPIRATION" THEN "expiration"
  ELSE "ignored"

OldWhLedgerSetOnInsert(event, now) ==
  [userId |-> event.app_user_id,
   platform |-> platformFromProvider(WhProvider(event)),
   provider |-> WhProvider(event),
   productId |-> IF event.product_id # NoProduct THEN event.product_id ELSE Unknown,
   transactionId |-> event.transaction_id,
   originalTransactionId |-> event.original_transaction_id,
   amountCents |-> 0,
   currency |-> IF event.currency # Undefined THEN event.currency ELSE "USD",
   purchasedAt |-> WhStartedAt(event, now),
   expiresAt |-> WhRenewsAt(event),
   rawPayload |-> event]

OldWhPayments(P, event, now) ==
  IF OldWhAction(event) = "purchase" /\ ~falsy(event.transaction_id)
  THEN PaymentUpdateOne(P, event.transaction_id,
                        OldWhLedgerSetOnInsert(event, now), << >>)
  ELSE P

OldWhSubUpdate(event, now) ==
  CASE OldWhAction(event) = "purchase" ->
         [userId |-> event.app_user_id, plan |-> planFromProductId(event.product_id),
          status |-> "active", source |-> WhSource(event),
          startedAt |-> WhStartedAt(event, now), renewsAt |-> WhRenewsAt(event),
          canceledAt |-> UndefinedNum]
    [] OldWhAction(event) = "refund" ->
         [userId |-> event.app_user_id, plan |-> "free", status |-> "inactive",
          source |-> WhSource(event), renewsAt |-> UndefinedNum, canceledAt |-> now]
    [] OldWhAction(event) = "cancellation" ->
         [userId |-> event.app_user_id, plan |-> planFromProductId(event.product_id),
          status |-> "canceled", source |-> WhSource(event),
          renewsAt |-> WhRenewsAt(event), canceledAt |-> now]
    [] OldWhAction(event) = "expiration" ->
         [userId |-> event.app_user_id, plan |-> "free", status |-> "expired",
          source |-> WhSource(event), renewsAt |-> UndefinedNum, canceledAt |-> now]

OldWhSubs(S, event, now) ==
  IF OldWhAction(event) \in {"purchase", "refund", "cancellation", "expiration"}
  THEN SubFindOneAndUpdate(S, event.app_user_id, OldWhSubUpdate(event, now))
  ELSE S

OldWhResponse(event) ==
  CASE OldWhAction(event) = "missing_event" -> Response(400, "missing_event", NoShape)
    [] OldWhAction(event) = "skipped" -> Response(200, "skipped", NoShape)
    [] OldWhAction(event) = "purchase" -> Response(200, "ok", NoShape)
    [] OldWhAction(event) = "refund" -> Response(200, "revoked", NoShape)
    [] OldWhAction(event) = "cancellation" -> Response(200, "canceled", NoShape)
    [] OldWhAction(event) = "expiration" -> Response(200, "expired", NoShape)
    [] OTHER -> Response(200, "ignored", NoShape)

OldWebhook(event, now) ==
  /\ payments' = OldWhPayments(payments, event, now)
  /\ subs' = OldWhSubs(subs, event, now)
  /\ resp' = OldWhResponse(event)
  /\ last' = Request("oldWebhook",
                     IF falsy(event.app_user_id) THEN Undefined ELSE event.app_user_id,
                     event, now)

-----------------------------------------------------------------------------
(* POST /subscription/activate, routes/subscription.ts lines 111-232 *)

ActOutcome(userId, body) ==
  IF userId = Undefined THEN "unauthorized"
  ELSE IF \/ body.productId = NoProduct
          \/ falsy(body.transactionId)
          \/ falsy(body.provider)
          \/ falsy(body.platform) THEN "missing_fields"
  ELSE IF body.amountCents = UndefinedNum \/ body.amountCents < 0
    THEN "invalid_amount"
  ELSE IF falsy(body.currency) THEN "missing_currency"
  ELSE "applied"

\* routes/subscription.ts has its own copy of the derivation
planFromProductId_subscription(productId) ==
  IF productId = NoProduct THEN "free"
  ELSE IF includes(productId, ".monthly") THEN "monthly"
  ELSE IF includes(productId, ".yearly") THEN "yearly"
  ELSE IF includes(productId, ".lifetime") THEN "lifetime"
  ELSE "free"

\* and so has routes/billing.ts, applied to the product id of each ledger row
planFromProductId_billing(productId) ==
  IF productId = NoProduct THEN "free"
  ELSE IF includes(productId, ".monthly") THEN "monthly"
  ELSE IF includes(productId, ".yearly") THEN "yearly"
  ELSE IF includes(productId, ".lifetime") THEN "lifetime"
  ELSE "free"

\* faulty variant: the declared plan is preferred to the derived one
ActPlanDeclaredFirst(body) ==
  LET derivedPlan == planFromProductId_subscription(body.productId) IN
  IF body.plan # Undefined THEN body.plan ELSE derivedPlan

ActPlan(body) ==
  LET derivedPlan == planFromProductId_subscription(body.productId) IN
  IF derivedPlan # "free" THEN derivedPlan
  ELSE IF body.plan # Undefined THEN body.plan ELSE "free"

ActExpiresAt(body) ==
  IF ActPlan(body) = "lifetime" THEN UndefinedNum
  ELSE IF body.periodEnd # UndefinedNum THEN body.periodEnd
  ELSE UndefinedNum

ActPayments(P, userId, body, now) ==
  IF ActOutcome(userId, body) = "applied"
  THEN PaymentUpdateOne(P, body.transactionId,
         [userId |-> userId, platform |-> body.platform, provider |-> body.provider,
          productId |-> body.productId, transactionId |-> body.transactionId],
         [amountCents |-> body.amountCents, currency |-> toUpperCase(body.currency),
          purchasedAt |-> now, expiresAt |-> ActExpiresAt(body), rawPayload |-> body])
  ELSE P

\* evaluated on the ledger as the payment upsert left it
ActSubUpdate(P, userId, body, now) ==
  LET paymentDoc == FindOnePayment(P, body.transactionId) IN
  [userId |-> userId, plan |-> ActPlan(body), status |-> "active",
   source |-> subSourceFromProvider(body.provider), startedAt |-> now,
   renewsAt |-> ActExpiresAt(body), canceledAt |-> UndefinedNum,
   latestPaymentId |-> IF paymentDoc # NullDoc THEN paymentDoc.id ELSE UndefinedNum]

\* faulty variant: the row updated is that of the user the payment names
ActSubsOfPayer(S, P, userId, body, now) ==
  IF ActOutcome(userId, body) = "applied"
  THEN SubFindOneAndUpdate(S, FindOnePayment(P, body.transactionId).userId,
         [ActSubUpdate(P, userId, body, now) EXCEPT
            !.userId = FindOnePayment(P, body.transactionId).userId])
  ELSE S

ActSubs(S, P, userId, body, now) ==
  IF ActOutcome(userId, body) = "applied"
  THEN SubFindOneAndUpdate(S, userId, ActSubUpdate(P, userId, body, now))
  ELSE S

ActResponse(S, userId, body) ==
  CASE ActOutcome(userId, body) = "unauthorized" -> Response(401, "unauthorized", NoShape)
    [] ActOutcome(userId, body) = "applied" ->
         Response(200, "subscription", toClientShape(FindOneSub(S, userId)))
    [] OTHER -> Response(400, ActOutcome(userId, body), NoShape)

Activate(userId, body, now) ==
  /\ payments' = ActPayments(payments, userId, body, now)
  /\ subs' = ActSubs(subs, payments', userId, body, now)
  /\ resp' = ActResponse(subs', userId, body)
  /\ last' = Request("activate", userId, body, now)

-----------------------------------------------------------------------------
(* POST /subscription/activate, routes/subscription.ts lines 432-491 *)

\* PaymentModel.create throws on a missing required path and on a duplicate
\* transactionId (unique index); the handler has no try/catch
OldActOutcome(P, userId, body) ==
  IF userId = Undefined THEN "unauthorized"
  ELSE IF \/ falsy(body.plan)
          \/ body.amountCents = UndefinedNum \/ body.amountCents = 0
          \/ falsy(body.currency) THEN "missing_plan_or_payment"
  ELSE IF \/ falsy(body.platform) \/ falsy(body.provider)
          \/ body.productId = NoProduct \/ falsy(body.transactionId)
    THEN "validation_error"
  ELSE IF PaymentsOf(P, body.transactionId) # {} THEN "duplicate_key"
  ELSE "applied"

OldActExpiresAt(body) ==
  IF body.plan = "lifetime" THEN UndefinedNum
  ELSE IF body.periodEnd # UndefinedNum /\ body.periodEnd # 0 THEN body.periodEnd
  ELSE UndefinedNum

OldActPayment(P, userId, body, now) ==
  NewPayment(P, OmitUndefined(
    [userId |-> userId, platform |-> body.platform, provider |-> body.provider,
     productId |-> body.productId, transactionId |-> body.transactionId,
     amountCents |-> body.amountCents, currency |-> body.currency,
     purchasedAt |-> now, expiresAt |-> OldActExpiresAt(body),
     rawPayload |-> NullDoc]))

OldActPayments(P, userId, body, now) ==
  IF OldActOutcome(P, userId, body) = "applied"
  THEN P \cup {OldActPayment(P, userId, body, now)}
  ELSE P

OldActSubUpdate(P, userId, body, now) ==
  [userId |-> userId, plan |-> body.plan, status |-> "active",
   source |-> body.provider, startedAt |-> now,
   renewsAt |-> OldActExpiresAt(body), canceledAt |-> UndefinedNum,
   latestPaymentId |-> OldActPayment(P, userId, body, now).id]

OldActSubs(S, P, userId, body, now) ==
  IF OldActOutcome(P, userId, body) = "applied"
  THEN SubFindOneAndUpdate(S, userId, OldActSubUpdate(P, userId, body, now))
  ELSE S

\* a thrown error leaves the request without a response (Express 4) or
\* answers 500 (Express 5)
OldActResponses(S, P, userId, body) ==
  CASE OldActOutcome(P, userId, body) = "unauthorized" ->
         {Response(401, "unauthorized", NoShape)}
    [] OldActOutcome(P, userId, body) = "missing_plan_or_payment" ->
         {Response(400, "missing_plan_or_payment", NoShape)}
    [] OldActOutcome(P, userId, body) = "applied" ->
         {Response(200, "subscription", toClientShape(FindOneSub(S, userId)))}
    [] OTHER -> {Response(c, OldActOutcome(P, userId, body), NoShape) : c \in {0, 500}}

OldActivate(userId, body, now) ==
  /\ payments' = OldActPayments(payments, userId, body, now)
  /\ subs' = OldActSubs(subs, payments, userId, body, now)
  /\ resp' \in OldActResponses(subs', payments, userId, body)
  /\ last' = Request("oldActivate", userId, body, now)

-----------------------------------------------------------------------------
(* GET /subscription and the consumer-triggered transitions *)

GetSubscription(userId) ==
  /\ resp' = IF userId = Undefined THEN Response(401, "unauthorized", NoShape)
             ELSE Response(200, "subscription", toClientShape(FindOneSub(subs, userId)))
  /\ last' = Request("get", userId, NoShape, UndefinedNum)
  /\ UNCHANGED <<payments, subs>>

\* subDoc.save() of a document found by findOne
SaveSub(S, old, doc) == (S \ {old}) \cup {doc}

\* faulty variant: canceling also forgets the payment the row refers to
CancelDocForgettingPayment(subDoc, body, now) ==
  [subDoc EXCEPT !.renewsAt = IF body.periodEnd # UndefinedNum
                              THEN body.periodEnd ELSE @,
                 !.status = "canceled",
                 !.canceledAt = now,
                 !.latestPaymentId = UndefinedNum]

CancelDoc(subDoc, body, now) ==
  [subDoc EXCEPT !.renewsAt = IF body.periodEnd # UndefinedNum
                              THEN body.periodEnd ELSE @,
                 !.status = "canceled",
                 !.canceledAt = now]

CancelAutoRenew(userId, body, now) ==
  LET subDoc == FindOneSub(subs, userId) IN
  /\ IF userId = Undefined
     THEN subs' = subs /\ resp' = Response(401, "unauthorized", NoShape)
     ELSE IF subDoc = NullDoc
     THEN subs' = subs /\ resp' = Response(404, "not_found", NoShape)
     ELSE /\ subs' = SaveSub(subs, subDoc, CancelDoc(subDoc, body, now))
          /\ resp' = Response(200, "subscription",
                              toClientShape(CancelDoc(subDoc, body, now)))
  /\ last' = Request("cancel", userId, body, now)
  /\ UNCHANGED payments

\* faulty variant: resuming also drops the renewal date
ResumeDocRenewing(subDoc) ==
  [subDoc EXCEPT !.status = "active", !.canceledAt = UndefinedNum,
                 !.renewsAt = UndefinedNum]

ResumeDoc(subDoc) ==
  [subDoc EXCEPT !.status = "active", !.canceledAt = UndefinedNum]

\* faulty variant: resuming without a row creates one at the free tier
ResumeAutoRenewCreating(userId) ==
  LET subDoc == FindOneSub(subs, userId) IN
  /\ IF userId = Undefined
     THEN subs' = subs /\ resp' = Response(401, "unauthorized", NoShape)
     ELSE IF subDoc = NullDoc
     THEN /\ subs' = subs \cup {NewSub([userId |-> userId, status |-> "active"])}
          /\ resp' = Response(404, "not_found", NoShape)
     ELSE /\ subs' = SaveSub(subs, subDoc, ResumeDoc(subDoc))
          /\ resp' = Response(200, "subscription", toClientShape(ResumeDoc(subDoc)))
  /\ last' = Request("resume", userId, NoShape, UndefinedNum)
  /\ UNCHANGED payments

ResumeAutoRenew(userId) ==
  LET subDoc == FindOneSub(subs, userId) IN
  /\ IF userId = Undefined
     THEN subs' = subs /\ resp' = Response(401, "unauthorized", NoShape)
     ELSE IF subDoc = NullDoc
     THEN subs' = subs /\ resp' = Response(404, "not_found", NoShape)
     ELSE /\ subs' = SaveSub(subs, subDoc, ResumeDoc(subDoc))
          /\ resp' = Response(200, "subscription", toClientShape(ResumeDoc(subDoc)))
  /\ last' = Request("resume", userId, NoShape, UndefinedNum)
  /\ UNCHANGED payments

\* faulty variant: an existing row keeps its renewal date
FreeDocKeepingRenewal(subDoc, userId, now) ==
  IF subDoc = NullDoc
  THEN NewSub([userId |-> userId, plan |-> "free", status |-> "inactive",
               source |-> "admin", startedAt |-> now, canceledAt |-> now])
  ELSE [subDoc EXCEPT !.plan = "free", !.status = "inactive", !.source = "admin",
                      !.canceledAt = now]

FreeDoc(subDoc, userId, now) ==
  IF subDoc = NullDoc
  THEN NewSub([userId |-> userId, plan |-> "free", status |-> "inactive",
               source |-> "admin", startedAt |-> now, canceledAt |-> now])
  ELSE [subDoc EXCEPT !.plan = "free", !.status = "inactive", !.source = "admin",
                      !.renewsAt = UndefinedNum, !.canceledAt = now]

SwitchToFree(userId, now) ==
  LET subDoc == FindOneSub(subs, userId) IN
  /\ IF userId = Undefined
     THEN subs' = subs /\ resp' = Response(401, "unauthorized", NoShape)
     ELSE /\ subs' = SaveSub(subs, subDoc, FreeDoc(subDoc, userId, now))
          /\ resp' = Response(200, "subscription",
                              toClientShape(FreeDoc(subDoc, userId, now)))
  /\ last' = Request("switchToFree", userId, NoShape, now)
  /\ UNCHANGED payments

-----------------------------------------------------------------------------
(* Requests *)

Event(type, user, product, tx, store, reason, exp, purchased, currency, price) ==
  [type |-> type, app_user_id |-> user, product_id |-> product,
   transaction_id |-> tx, original_transaction_id |-> Undefined, store |-> store,
   cancel_reason |-> reason, expiration_at_ms |-> exp,
   purchased_at_ms |-> purchased, currency |-> currency, price |-> price]

Body(plan, periodEnd, amountCents, currency, productId, tx, platform, provider) ==
  [plan |-> plan, periodEnd |-> periodEnd, amountCents |-> amountCents,
   currency |-> currency, productId |-> productId, transactionId |-> tx,
   platform |-> platform, provider |-> provider]

PurchaseTypes == {"INITIAL_PURCHASE", "RENEWAL", "NON_RENEWING_PURCHASE",
                  "UNCANCELLATION", "PRODUCT_CHANGE"}

\* purchase-like deliveries for u1, with and without a transaction id
PurchaseEvents ==
  {Event("INITIAL_PURCHASE", "u1", p, tx, AppStore, Undefined, exp, UndefinedNum,
         Undefined, UndefinedNum) :
     p \in {PMonthly, PLifetime}, tx \in {"t1", Undefined},
     exp \in {UndefinedNum, MaxTime}}
  \cup
  {Event("RENEWAL", "u1", PMonthly, Undefined, AppStore, Undefined, MaxTime,
         UndefinedNum, Undefined, UndefinedNum),
   Event("RENEWAL", "u1", PMonthly, "t1", AppStore, Undefined, MaxTime,
         1, "eur", 4990)}

\* the other deliveries: only CANCELLATION reads cancel_reason, product and expiry
LifecycleEvents ==
  {Event(t, "u1", NoProduct, Undefined, AppStore, Undefined, UndefinedNum,
         UndefinedNum, Undefined, UndefinedNum) :
     t \in {"REFUND", "REVOCATION", "EXPIRATION", "TRANSFER"}}
  \cup
  {Event("CANCELLATION", "u1", pe[1], Undefined, AppStore, r, pe[2], UndefinedNum,
         Undefined, UndefinedNum) :
     pe \in {<<NoProduct, UndefinedNum>>, <<PMonthly, MaxTime>>},
     r \in {Undefined, "CUSTOMER_SUPPORT", "UNSUBSCRIBE"}}
  \cup
  {Event("EXPIRATION", Undefined, NoProduct, Undefined, AppStore, Undefined,
         UndefinedNum, UndefinedNum, Undefined, UndefinedNum)}

Events == PurchaseEvents \cup LifecycleEvents

Bodies ==
  {Body(Undefined, pe, 499, "usd", p, "t1", "ios", "app_store") :
     pe \in {UndefinedNum, MaxTime}, p \in {PMonthly, PLifetime}}

\* the earlier activate handler requires body.plan
OldBodies ==
  {Body(pp[1], pe, 499, "usd", pp[2], "t1", "ios", "app_store") :
     pe \in {UndefinedNum, MaxTime},
     pp \in {<<"monthly", PMonthly>>, <<"lifetime", PLifetime>>}}

-----------------------------------------------------------------------------
(* Specification *)

Init ==
  /\ payments = {}
  /\ subs = {}
  /\ resp = Response(0, "none", NoShape)
  /\ last = Request("none", Undefined, NoShape, UndefinedNum)
  /\ handled = 0
  /\ inflight = {}

\* a request of a specification that does not bound the number of requests
Free(A) == A /\ UNCHANGED <<handled, inflight>>

\* the current handlers, one user
Next ==
  \/ \E event \in Events, now \in Times : Free(Webhook(event, now))
  \/ \E body \in Bodies, now \in Times : Free(Activate("u1", body, now))

Spec == Init /\ [][Next]_vars

\* the earlier handlers, one user
NextOld ==
  \/ \E event \in Events, now \in Times : Free(OldWebhook(event, now))
  \/ \E body \in OldBodies, now \in Times : Free(OldActivate("u1", body, now))

SpecOld == Init /\ [][NextOld]_vars

\* purchase-like deliveries of two transactions for two users, through all
\* four handlers.  A handler awaits the ledger write and then the
\* subscription write, so requests interleave between the two: a request that
\* has written the ledger is in flight until its subscription write.
LedgerEvents ==
  {Event("INITIAL_PURCHASE", ups[1], ups[2], tx, ups[3], Undefined, MaxTime,
         UndefinedNum, Undefined, UndefinedNum) :
     tx \in TxIds, ups \in {<<"u1", PMonthly, AppStore>>, <<"u2", PYearly, PlayStore>>}}

LedgerBodies ==
  {Body("lifetime", UndefinedNum, 499, "usd", PLifetime, tx, "web", "stripe") :
     tx \in TxIds}

\* the handler up to and including its ledger write
Begin(r, P) ==
  /\ handled < MaxHandled
  /\ handled' = handled + 1
  /\ Cardinality(inflight) < MaxInflight
  /\ payments' = P
  /\ inflight' = inflight \cup {r}
  /\ UNCHANGED <<subs, resp, last>>

\* the rest of the handler: subscription write and response
Finish(r, S, answers) ==
  /\ r \in inflight
  /\ inflight' = inflight \ {r}
  /\ subs' = S
  /\ resp' \in answers
  /\ last' = r
  /\ UNCHANGED <<payments, handled>>

BeginWebhook(event, now) ==
  /\ WhAction(event) = "purchase"
  /\ Begin(Request("webhook", WhUserId(event), event, now),
           WhPayments(payments, event, now))

FinishWebhook(r) ==
  /\ r.op = "webhook"
  /\ Finish(r, WhSubs(subs, r.arg, r.now), {WhResponse(r.arg)})

BeginOldWebhook(event, now) ==
  /\ OldWhAction(event) = "purchase"
  /\ Begin(Request("oldWebhook", event.app_user_id, event, now),
           OldWhPayments(payments, event, now))

FinishOldWebhook(r) ==
  /\ r.op = "oldWebhook"
  /\ Finish(r, OldWhSubs(subs, r.arg, r.now), {OldWhResponse(r.arg)})

BeginActivate(userId, body, now) ==
  /\ ActOutcome(userId, body) = "applied"
  /\ Begin(Request("activate", userId, body, now),
           ActPayments(payments, userId, body, now))

FinishActivate(r) ==
  /\ r.op = "activate"
  /\ Finish(r, ActSubs(subs, payments, r.user, r.arg, r.now),
            {ActResponse(ActSubs(subs, payments, r.user, r.arg, r.now), r.user, r.arg)})

BeginOldActivate(userId, body, now) ==
  /\ OldActOutcome(payments, userId, body) = "applied"
  /\ Begin(Request("oldActivate", userId, body, now),
           OldActPayments(payments, userId, body, now))

\* PaymentModel.create throws: the request ends without a subscription write
FailOldActivate(userId, body, now) ==
  /\ OldActOutcome(payments, userId, body) = "duplicate_key"
  /\ handled < MaxHandled
  /\ handled' = handled + 1
  /\ OldActivate(userId, body, now)
  /\ UNCHANGED inflight

FinishOldActivate(r) ==
  /\ r.op = "oldActivate"
  /\ LET \* payment._id: the row that create inserted for this transactionId
         upd == [OldActSubUpdate(payments, r.user, r.arg, r.now) EXCEPT
                   !.latestPaymentId = FindOnePayment(payments, r.arg.transactionId).id]
         S == SubFindOneAndUpdate(subs, r.user, upd)
     IN Finish(r, S, {Response(200, "subscription", toClientShape(FindOneSub(S, r.user)))})

\* requests arrive one after the other: the clock of a request is its rank
Arrival == handled + 1

NextLedger ==
  \/ \E event \in LedgerEvents : BeginWebhook(event, Arrival)
  \/ \E r \in inflight : FinishWebhook(r)
  \/ \E event \in LedgerEvents : BeginOldWebhook(event, Arrival)
  \/ \E r \in inflight : FinishOldWebhook(r)
  \/ \E u \in Users, body \in LedgerBodies : BeginActivate(u, body, Arrival)
  \/ \E r \in inflight : FinishActivate(r)
  \/ \E u \in Users, body \in LedgerBodies : BeginOldActivate(u, body, Arrival)
  \/ \E u \in Users, body \in LedgerBodies : FailOldActivate(u, body, Arrival)
  \/ \E r \in inflight : FinishOldActivate(r)

SpecLedger == Init /\ [][NextLedger]_vars

\* the classifier on its own: one delivery of every (type, cancel_reason) pair
ClassifyTypes ==
  PurchaseTypes \cup {"REFUND", "REVOCATION", "CANCELLATION", "EXPIRATION",
                      "TRANSFER", "BILLING_ISSUE", "SUBSCRIPTION_PAUSED", "TEST"}

ClassifyReasons ==
  {Undefined, "CUSTOMER_SUPPORT", "customer_support", "UNSUBSCRIBE", "BILLING_ERROR"}

ClassifyEvents ==
  {Event(t, "u1", PMonthly, Undefined, AppStore, r, UndefinedNum, UndefinedNum,
         Undefined, UndefinedNum) : t \in ClassifyTypes, r \in ClassifyReasons}

InitClassify ==
  /\ payments = {}
  /\ subs = {}
  /\ resp = Response(0, "none", NoShape)
  /\ \E event \in ClassifyEvents, now \in Times :
       last = Request("pending", Undefined, event, now)
  /\ handled = 0
  /\ inflight = {}

NextClassify ==
  /\ last.op = "pending"
  /\ Free(Webhook(last.arg, last.now))

SpecClassify == InitClassify /\ [][NextClassify]_vars

\* deliveries of every class to both webhook handlers, with and without a
\* user id
DeliveryEvents ==
  {Event("INITIAL_PURCHASE", u, PMonthly, "t1", AppStore, Undefined, MaxTime,
         UndefinedNum, Undefined, UndefinedNum) : u \in {"u1", Undefined, " "}}
  \cup
  {Event(t, "u1", NoProduct, Undefined, AppStore, Undefined, UndefinedNum,
         UndefinedNum, Undefined, UndefinedNum) :
     t \in {"REFUND", "CANCELLATION", "EXPIRATION", "TRANSFER"}}
  \cup
  {Event("EXPIRATION", u, NoProduct, "t2", AppStore, Undefined, UndefinedNum,
         UndefinedNum, Undefined, UndefinedNum) : u \in {Undefined, ""}}

NextDelivery ==
  \/ \E event \in DeliveryEvents, now \in Times : Free(Webhook(event, now))
  \/ \E event \in DeliveryEvents, now \in Times : Free(OldWebhook(event, now))

SpecDelivery == Init /\ [][NextDelivery]_vars

\* deliveries with and without the Authorization header, with and without
\* a configured secret
Secrets == {<< >>, <<"s3cret">>, <<"Bearer ", "s3cret", " ">>}

AuthHeaders == {<< >>, <<"s3cret">>, <<"bearer ", "s3cret">>, <<"wrong">>}

AuthEvents ==
  {Event("INITIAL_PURCHASE", "u1", PMonthly, "t1", AppStore, Undefined, MaxTime,
         UndefinedNum, Undefined, UndefinedNum),
   Event("EXPIRATION", "u1", NoProduct, Undefined, AppStore, Undefined,
         UndefinedNum, UndefinedNum, Undefined, UndefinedNum)}

NextAuth ==
  \E expectedRaw \in Secrets, authorization \in AuthHeaders,
     event \in AuthEvents, now \in Times :
    Free(DeliverWebhook(expectedRaw, authorization, event, now))

SpecAuth == Init /\ [][NextAuth]_vars

\* activate calls to both activate handlers: declared plans that agree and
\* disagree with the product id, each required field missing in turn, and a
\* free trial
PYearlyInside == <<"com", ".yearly", ".v2">>

ValidBodies ==
  {Body(pp[1], MaxTime, 499, "usd", pp[2], "t1", "ios", "app_store") :
     pp \in {<<Undefined, PYearly>>, <<"free", PYearly>>, <<"free", PYearlyInside>>,
             <<"free", PYearlyMonthly>>, <<"lifetime", PYearly>>,
             <<"lifetime", PPlain>>}}
  \cup
  {Body("yearly", MaxTime, 0, "usd", PYearly, "t2", "ios", "app_store")}

InvalidBodies ==
  {Body("yearly", MaxTime, 499, "usd", NoProduct, "t2", "ios", "app_store"),
   Body("yearly", MaxTime, 499, "usd", PYearly, Undefined, "ios", "app_store"),
   Body("yearly", MaxTime, 499, "usd", PYearly, "t2", Undefined, "app_store"),
   Body("yearly", MaxTime, 499, "usd", PYearly, "t2", "ios", Undefined),
   Body("yearly", MaxTime, UndefinedNum, "usd", PYearly, "t2", "ios", "app_store"),
   Body("yearly", MaxTime, -5, "usd", PYearly, "t2", "ios", "app_store"),
   Body("yearly", MaxTime, 499, "", PYearly, "t2", "ios", "app_store"),
   Body("yearly", MaxTime, 499, Undefined, PYearly, "t2", "ios", "app_store")}

ActivateBodies == ValidBodies \cup InvalidBodies

NextActivate ==
  \/ \E body \in ActivateBodies : Free(Activate("u1", body, MaxTime))
  \/ \E body \in ActivateBodies : Free(OldActivate("u1", body, MaxTime))

SpecActivate == Init /\ [][NextActivate]_vars

\* the plan derivations on their own: every product id of up to MaxMarkers
\* pieces, each piece a marker, a marker in another case, or other text
MaxMarkers == 3

ProductPieces == {"pkg", ".monthly", ".yearly", ".lifetime", ".Yearly"}

RECURSIVE SeqsUpTo(_, _)
SeqsUpTo(S, n) ==
  IF n = 0 THEN {<< >>}
  ELSE LET shorter == SeqsUpTo(S, n - 1) IN
       shorter \cup {Append(q, x) : q \in shorter, x \in S}

InitPlan ==
  /\ payments = {}
  /\ subs = {}
  /\ resp = Response(0, "none", NoShape)
  /\ \E productId \in SeqsUpTo(ProductPieces, MaxMarkers) :
       last = Request("pending", Undefined, [productId |-> productId], 0)
  /\ handled = 0
  /\ inflight = {}

DerivePlan ==
  /\ last.op = "pending"
  /\ resp' = Response(200, "plan",
                      [webhook |-> planFromProductId(last.arg.productId),
                       activate |-> planFromProductId_subscription(last.arg.productId),
                       billing |-> planFromProductId_billing(last.arg.productId)])
  /\ last' = [last EXCEPT !.op = "planFromProductId"]
  /\ UNCHANGED <<payments, subs, handled, inflight>>

NextPlan == DerivePlan

SpecPlan == InitPlan /\ [][NextPlan]_vars

\* one purchase delivered to the current webhook handler for every store
\* string of up to MaxStoreParts pieces, in upper, lower and mixed case
MaxStoreParts == 2

StorePieces == {"PLAY", "GOOGLE", "APP_STORE", "apple", "IOS", "Stripe", "AMAZON"}

InitStore ==
  /\ payments = {}
  /\ subs = {}
  /\ resp = Response(0, "none", NoShape)
  /\ \E store \in SeqsUpTo(StorePieces, MaxStoreParts) :
       last = Request("pending", Undefined,
                      Event("INITIAL_PURCHASE", "u1", PMonthly, "t1", store,
                            Undefined, MaxTime, UndefinedNum, Undefined,
                            UndefinedNum), 1)
  /\ handled = 0
  /\ inflight = {}

NextStore ==
  /\ last.op = "pending"
  /\ Free(Webhook(last.arg, last.now))

SpecStore == InitStore /\ [][NextStore]_vars

\* the consumer endpoints of one user, on the rows that purchases, lifecycle
\* deliveries and activate calls leave
NextConsumer ==
  \/ \E event \in
       {Event("INITIAL_PURCHASE", "u1", PMonthly, "t1", AppStore, Undefined,
              MaxTime, UndefinedNum, Undefined, UndefinedNum),
        Event("INITIAL_PURCHASE", "u1", PLifetime, "t2", AppStore, Undefined,
              UndefinedNum, UndefinedNum, Undefined, UndefinedNum),
        Event("EXPIRATION", "u1", NoProduct, Undefined, AppStore, Undefined,
              UndefinedNum, UndefinedNum, Undefined, UndefinedNum)},
        now \in Times : Free(Webhook(event, now))
  \/ Free(Activate("u1", Body(Undefined, MaxTime, 499, "usd", PYearly, "t1",
                              "ios", "app_store"), 1))
  \/ Free(GetSubscription("u1"))
  \/ \E periodEnd \in {UndefinedNum, 1}, now \in Times :
       Free(CancelAutoRenew("u1", [periodEnd |-> periodEnd], now))
  \/ Free(ResumeAutoRenew("u1"))
  \/ \E now \in Times : Free(SwitchToFree("u1", now))

SpecConsumer == Init /\ [][NextConsumer]_vars

\* Requests of one user that overlap.  A handler runs up to its first awaited
\* datastore call, and later from there to its answer; an element of inflight
\* is a request with the step it has reached and the row its findOne returned.
MaxRace == 3

RaceRequests(now) ==
  {Request("webhook", "u1",
           Event("INITIAL_PURCHASE", "u1", PMonthly, "t1", AppStore, Undefined,
                 MaxTime, UndefinedNum, Undefined, UndefinedNum), now),
   Request("webhook", "u1",
           Event("EXPIRATION", "u1", NoProduct, Undefined, AppStore, Undefined,
                 UndefinedNum, UndefinedNum, Undefined, UndefinedNum), now),
   Request("activate", "u1",
           Body(Undefined, MaxTime, 499, "usd", PYearly, "t1", "ios", "app_store"),
           now),
   Request("switchToFree", "u1", NoShape, now),
   Request("cancel", "u1", [periodEnd |-> UndefinedNum], now),
   Request("resume", "u1", NoShape, now)}

\* the document a consumer endpoint holds after its assignments
RaceDoc(r, seen) ==
  CASE r.op = "cancel" -> CancelDoc(seen, r.arg, r.now)
    [] r.op = "resume" -> ResumeDoc(seen)
    [] OTHER -> FreeDoc(seen, r.user, r.now)

\* faulty variant: userId is not unique, a new document is always inserted
SubSaveNoIndex(S, seen, doc) ==
  IF seen = NullDoc THEN S \cup {doc}
  ELSE LET cur == FindOneSub(S, doc.userId) IN
       (S \ {cur}) \cup {[k \in DOMAIN cur |->
                            IF doc[k] # seen[k] THEN doc[k] ELSE cur[k]]}

\* doc.save(): a new document is inserted, and the unique index on userId
\* rejects it when the user has a row by now; a document that findOne returned
\* is updated in the paths whose value was changed
SubSave(S, seen, doc) ==
  IF seen = NullDoc
  THEN IF SubsOf(S, doc.userId) = {} THEN S \cup {doc} ELSE S
  ELSE LET cur == FindOneSub(S, doc.userId) IN
       (S \ {cur}) \cup {[k \in DOMAIN cur |->
                            IF doc[k] # seen[k] THEN doc[k] ELSE cur[k]]}

RaceBegin(r) ==
  LET seen == IF r.op \in {"cancel", "resume", "switchToFree"}
              THEN FindOneSub(subs, r.user) ELSE NullDoc
      single == r.op = "webhook" /\ WhAction(r.arg) # "purchase"
      notFound == r.op \in {"cancel", "resume"} /\ seen = NullDoc
  IN /\ handled < MaxRace
     /\ handled' = handled + 1
     /\ payments' = CASE r.op = "webhook" -> WhPayments(payments, r.arg, r.now)
                      [] r.op = "activate" ->
                           ActPayments(payments, r.user, r.arg, r.now)
                      [] OTHER -> payments
     /\ subs' = IF single THEN WhSubs(subs, r.arg, r.now) ELSE subs
     /\ inflight' = inflight \cup
          {[req |-> r, seen |-> seen,
            step |-> IF single \/ notFound THEN "done" ELSE "begun"]}
     /\ IF single THEN resp' = WhResponse(r.arg) /\ last' = r
        ELSE IF notFound
        THEN resp' = Response(404, "not_found", NoShape) /\ last' = r
        ELSE UNCHANGED <<resp, last>>

RaceFinish(x) ==
  LET r == x.req
      rejected == /\ r.op = "switchToFree"
                  /\ x.seen = NullDoc
                  /\ SubsOf(subs, r.user) # {}
      S == CASE r.op = "webhook" -> WhSubs(subs, r.arg, r.now)
             [] r.op = "activate" -> ActSubs(subs, payments, r.user, r.arg, r.now)
             [] OTHER -> SubSave(subs, x.seen, RaceDoc(r, x.seen))
  IN /\ x.step = "begun"
     /\ subs' = S
     /\ inflight' = (inflight \ {x}) \cup
          {[x EXCEPT !.step = IF rejected THEN "failed" ELSE "done"]}
     /\ resp' \in
          IF rejected
          THEN {Response(c, "duplicate_key", NoShape) : c \in {0, 500}}
          ELSE {CASE r.op = "webhook" -> WhResponse(r.arg)
                  [] r.op = "activate" -> ActResponse(S, r.user, r.arg)
                  [] OTHER -> Response(200, "subscription",
                                       toClientShape(RaceDoc(r, x.seen)))}
     /\ last' = r
     /\ UNCHANGED <<payments, handled>>

\* the awaited datastore call rejects: the webhook handler catches it and
\* answers 500, the subscription routes have no catch
RaceFail(x) ==
  /\ x.step = "begun"
  /\ inflight' = (inflight \ {x}) \cup {[x EXCEPT !.step = "failed"]}
  /\ resp' \in IF x.req.op = "webhook" THEN {Response(500, "error", NoShape)}
               ELSE {Response(c, "error", NoShape) : c \in {0, 500}}
  /\ last' = x.req
  /\ UNCHANGED <<payments, subs, handled>>

NextRace ==
  \/ \E r \in RaceRequests(Arrival) : RaceBegin(r)
  \/ \E x \in inflight : RaceFinish(x)
  \/ \E x \in inflight : RaceFail(x)

SpecRace == Init /\ [][NextRace]_vars

\* webhook deliveries of one user in every order, current handler
NextOrder == \E event \in Events, now \in Times : Free(Webhook(event, now))

SpecOrder == Init /\ [][NextOrder]_vars

-----------------------------------------------------------------------------
(* Shared vocabulary of the properties *)

WebhookOps == {"webhook", "oldWebhook"}

ActivateOps == {"activate", "oldActivate"}

\* the last request was a webhook delivery that carried a type and a user id
Delivered == last.op \in WebhookOps /\ last.user # Undefined /\ last.arg.type # Undefined

\* the last request was an admitted activate call
Activated == last.op \in ActivateOps /\ resp.tag = "subscription"

\* section 4.1: REFUND, REVOCATION, or CANCELLATION with reason CUSTOMER_SUPPORT
RefundLike(event) ==
  \/ event.type \in {"REFUND", "REVOCATION"}
  \/ event.type = "CANCELLATION" /\ event.cancel_reason = "CUSTOMER_SUPPORT"

LastSub == FindOneSub(subs, last.user)

LastShape == toClientShape(LastSub)

-----------------------------------------------------------------------------
(* Payment ledger: C1 - C3 *)

\* the transaction id a request carries
TxOf(r) ==
  IF r.op \in WebhookOps THEN r.arg.transaction_id
  ELSE IF r.op \in ActivateOps THEN r.arg.transactionId
  ELSE Undefined

\* the transaction id the last request delivered, if it was a purchase-like
\* delivery that the handler applied
DeliveredTx ==
  IF Delivered /\ resp.tag = "ok" THEN last.arg.transaction_id
  ELSE IF Activated THEN last.arg.transactionId
  ELSE Undefined

\* the requests whose ledger write has happened: those in flight and the last
\* one answered
PastLedgerWrite == inflight \cup {r \in {last} : r.op \in WebhookOps \cup ActivateOps}

\* C1: under any sequence and interleaving of purchase-like webhook deliveries
\* and activate calls the ledger holds at most one row per transactionId, and
\* exactly one once a delivery with that transactionId has written the ledger;
\* no request removes a row.
C1_OneRowPerTransaction ==
  /\ [](/\ \A tx \in TxIds : Cardinality(PaymentsOf(payments, tx)) <= 1
        /\ \A r \in PastLedgerWrite :
             TxOf(r) # Undefined => Cardinality(PaymentsOf(payments, TxOf(r))) = 1)
  /\ [][\A d \in payments : PaymentsOf(payments', d.transactionId) # {}]_vars

\* an activate call was answered while a webhook delivery of the same
\* transaction was in flight, and the ledger holds one row for it
C1_Witness ==
  /\ last.op = "activate" /\ resp.code = 200
  /\ \E r \in inflight : r.op = "webhook" /\ TxOf(r) = TxOf(last)
  /\ Cardinality(PaymentsOf(payments, TxOf(last))) = 1

IdentityKeys == {"userId", "platform", "provider", "productId", "transactionId"}

SameIdentity(d, e) == \A k \in IdentityKeys : d[k] = e[k]

\* the product id a request carries
ProductOf(r) == IF r.op \in WebhookOps THEN r.arg.product_id ELSE r.arg.productId

\* C2: the identity fields of a ledger row (userId, platform, provider,
\* productId) are those of the delivery that inserted it, and no later
\* delivery with the same transactionId changes them, whatever user, store or
\* product it carries.
C2_IdentityInsertOnly ==
  [][/\ \A d \in payments : \E e \in payments' : e.id = d.id /\ SameIdentity(d, e)
     /\ \A e \in payments' :
          PaymentsOf(payments, e.transactionId) = {} =>
            \E r \in inflight' \ inflight :
              /\ e.userId = r.user
              /\ e.transactionId = TxOf(r)
              /\ e.productId = ProductOf(r)
              /\ e.provider = IF r.op \in WebhookOps THEN WhProvider(r.arg)
                              ELSE r.arg.provider]_vars

\* a delivery by another user, with another product and store, of a recorded
\* transaction has been applied and the row still names the first user
C2_Witness ==
  /\ DeliveredTx # Undefined
  /\ \E d \in PaymentsOf(payments, DeliveredTx) :
       /\ d.userId # last.user
       /\ d.productId # ProductOf(last)

\* C3: every delivery overwrites the mutable fields of the ledger row
\* (amountCents, currency, purchasedAt, expiresAt, rawPayload): after a
\* redelivery of a purchase-like event with the same transactionId the row
\* carries the values of the latest delivery.
C3_MutableOverwritten ==
  (Delivered /\ resp.tag = "ok" /\ last.arg.transaction_id # Undefined) =>
    \A d \in PaymentsOf(payments, last.arg.transaction_id) :
      /\ d.amountCents = IF extractAmountCents(last.arg) # Null
                         THEN extractAmountCents(last.arg) ELSE 0
      /\ d.currency = pickCurrency(last.arg)
      /\ d.purchasedAt = WhStartedAt(last.arg, last.now)
      /\ d.expiresAt = last.arg.expiration_at_ms
      /\ d.rawPayload = last.arg

-----------------------------------------------------------------------------
(* Classification: C5 *)

ClassifiedTypes ==
  PurchaseTypes \cup {"REFUND", "REVOCATION", "CANCELLATION", "EXPIRATION"}

\* C5: classification is total and mutually exclusive: every (type,
\* cancel_reason) pair is handled as exactly one of purchase-like, refund-like,
\* cancellation (a CANCELLATION that is not refund-like), expiration or
\* ignored; any other type is ignored, changes nothing and is answered 200.
C5_ClassificationTotalExclusive ==
  last.op = "webhook" =>
    LET t == last.arg.type
        refund == \/ t \in {"REFUND", "REVOCATION"}
                  \/ /\ t = "CANCELLATION"
                     /\ toUpperCase(last.arg.cancel_reason) = "CUSTOMER_SUPPORT"
    IN /\ resp.code = 200
       /\ resp.tag \in {"ok", "revoked", "canceled", "expired", "ignored"}
       /\ resp.tag = "ok" <=> t \in PurchaseTypes
       /\ resp.tag = "revoked" <=> refund
       /\ resp.tag = "canceled" <=> (t = "CANCELLATION" /\ ~refund)
       /\ resp.tag = "expired" <=> t = "EXPIRATION"
       /\ resp.tag = "ignored" <=> t \notin ClassifiedTypes
       /\ resp.tag = "ignored" <=> LastSub = NullDoc
       /\ LastSub # NullDoc =>
            LastSub.status = CASE resp.tag = "ok" -> "active"
                               [] resp.tag = "revoked" -> "inactive"
                               [] resp.tag = "canceled" -> "canceled"
                               [] resp.tag = "expired" -> "expired"

\* a support-initiated cancellation was classified as refund-like, not as a
\* cancellation
C5_Witness ==
  /\ last.op = "webhook"
  /\ last.arg.type = "CANCELLATION"
  /\ last.arg.cancel_reason = "CUSTOMER_SUPPORT"
  /\ resp.tag = "revoked"

-----------------------------------------------------------------------------
(* Reconciliation: C4, C6 - C10 *)

SubView(d) ==
  IF d = NullDoc THEN <<"absent">>
  ELSE <<d.plan, d.status, d.renewsAt>>

\* C4: applying an identical purchase-like event (webhook event or activate
\* call with the same transactionId) a second time succeeds and leaves plan,
\* status and renewsAt as the first application left them.
C4_ReapplyIdempotent ==
  [][(/\ DeliveredTx # Undefined
      /\ last'.op = last.op /\ last'.user = last.user /\ last'.arg = last.arg)
     => /\ resp'.code = 200
        /\ SubView(FindOneSub(subs', last.user)) = SubView(FindOneSub(subs, last.user))
    ]_vars

\* C6: after a refund-like event (REFUND, REVOCATION, CANCELLATION with reason
\* CUSTOMER_SUPPORT) is processed for a user, the user's plan is free and the
\* status inactive.
C6_RefundLikeRevokes ==
  (Delivered /\ RefundLike(last.arg)) =>
    /\ LastSub # NullDoc
    /\ LastSub.plan = "free"
    /\ LastSub.status = "inactive"

\* C7: after a refund-like or an EXPIRATION event is processed, renewsAt is
\* absent and the projection's periodEnd is null.
C7_RevocationClearsRenewsAt ==
  (Delivered /\ (RefundLike(last.arg) \/ last.arg.type = "EXPIRATION")) =>
    /\ LastSub # NullDoc
    /\ LastSub.renewsAt = UndefinedNum
    /\ LastShape.periodEnd = Null

\* C8: after a purchase-like webhook event with a user id is processed, the
\* status is active, the plan is the one derived from the product id, the
\* projection's periodEnd is the event's expiration (null without one) and
\* autoRenew is true for a monthly or yearly plan.
C8_PurchaseActivates ==
  (Delivered /\ last.arg.type \in PurchaseTypes) =>
    /\ LastSub # NullDoc
    /\ LastSub.status = "active"
    /\ LastSub.plan = planFromProductId(last.arg.product_id)
    /\ LastShape.periodEnd = IF last.arg.expiration_at_ms # UndefinedNum
                             THEN last.arg.expiration_at_ms ELSE Null
    /\ LastSub.plan \in {"monthly", "yearly"} => LastShape.autoRenew

\* the expiry the last purchase-like request carried
CarriedExpiry ==
  IF last.op \in WebhookOps THEN last.arg.expiration_at_ms ELSE last.arg.periodEnd

\* C9: after a purchase-like action (webhook or activate) canceledAt is absent,
\* and renewsAt is absent when the event carried no expiry.
C9_PurchaseClears ==
  ((Delivered /\ last.arg.type \in PurchaseTypes) \/ Activated) =>
    /\ LastSub # NullDoc
    /\ LastSub.canceledAt = UndefinedNum
    /\ CarriedExpiry = UndefinedNum => LastSub.renewsAt = UndefinedNum

PlainCancellation(event) ==
  /\ event.type = "CANCELLATION"
  /\ event.cancel_reason = Undefined
  /\ event.product_id = NoProduct
  /\ event.expiration_at_ms = UndefinedNum

\* C10: a plain CANCELLATION (no reason, no product id, no expiry) applied to an
\* active paid subscription sets status canceled, leaves plan and renewsAt as
\* they were, and the projection's autoRenew is false.
C10_CancellationKeepsPlan ==
  [][(/\ last'.op \in WebhookOps /\ last'.user # Undefined
      /\ PlainCancellation(last'.arg)
      /\ FindOneSub(subs, last'.user) # NullDoc
      /\ FindOneSub(subs, last'.user).status = "active"
      /\ FindOneSub(subs, last'.user).plan # "free")
     => /\ FindOneSub(subs', last'.user).status = "canceled"
        /\ FindOneSub(subs', last'.user).plan = FindOneSub(subs, last'.user).plan
        /\ FindOneSub(subs', last'.user).renewsAt
             = FindOneSub(subs, last'.user).renewsAt
        /\ ~toClientShape(FindOneSub(subs', last'.user)).autoRenew
    ]_vars

-----------------------------------------------------------------------------
(* Expiration, ignored and skipped deliveries, authorization: C11 - C14 *)

\* C11: after an EXPIRATION event is processed the user's subscription has
\* plan free and status expired with canceledAt stamped with the time of the
\* delivery, whatever the state before; a row with those values exists even if
\* none did.
C11_ExpirationDowngrades ==
  (Delivered /\ last.arg.type = "EXPIRATION") =>
    /\ resp = Response(200, "expired", NoShape)
    /\ LastSub # NullDoc
    /\ LastSub.plan = "free"
    /\ LastSub.status = "expired"
    /\ LastSub.canceledAt = last.now

\* an EXPIRATION was applied to a row that a purchase had started
C11_Witness ==
  /\ Delivered /\ last.arg.type = "EXPIRATION"
  /\ LastSub # NullDoc
  /\ LastSub.status = "expired"
  /\ LastSub.startedAt # UndefinedNum

\* the types the webhook handlers recognise
Recognised(type) == type \in ClassifiedTypes

\* C12: an event whose type is none of the recognised purchase, refund,
\* cancellation or expiration types is answered 200 with the ignored marker
\* and changes neither the ledger nor any subscription.
C12_IgnoredChangesNothing ==
  [][(/\ last'.op \in WebhookOps
      /\ last'.user # Undefined
      /\ last'.arg.type # Undefined
      /\ ~Recognised(last'.arg.type))
     => /\ resp' = Response(200, "ignored", NoShape)
        /\ payments' = payments
        /\ subs' = subs]_vars

\* an unrecognised event was delivered for a user who has an active
\* subscription and a ledger row
C12_Witness ==
  /\ Delivered /\ ~Recognised(last.arg.type)
  /\ resp.tag = "ignored"
  /\ payments # {}
  /\ LastSub # NullDoc /\ LastSub.status = "active"

\* the app_user_id of a delivery resolves to no user: absent or empty, and for
\* the current handler also blank
NoUserId(r) ==
  \/ r.arg.app_user_id \in {Undefined, ""}
  \/ r.op = "webhook" /\ trim(r.arg.app_user_id) = ""

\* C13: a webhook event of any type without a resolvable app_user_id is
\* answered 200 with a skip indicator and creates or changes no ledger row and
\* no subscription row.
C13_MissingUserSkipped ==
  [][(/\ last'.op \in WebhookOps
      /\ last'.arg.type # Undefined
      /\ NoUserId(last'))
     => /\ resp' = Response(200, "skipped", NoShape)
        /\ payments' = payments
        /\ subs' = subs]_vars

\* a purchase-like event with a transaction id but no user id was skipped
\* and the ledger is still empty
C13_Witness ==
  /\ last.op \in WebhookOps
  /\ last.arg.type = "INITIAL_PURCHASE"
  /\ last.arg.transaction_id = "t1"
  /\ NoUserId(last)
  /\ resp.tag = "skipped"
  /\ payments = {}

\* the secret a header value or a configured value carries: its last token
\* that is not a blank
Credential(v) ==
  LET s == SelectSeq(v, LAMBDA t : t # " ") IN
  IF s = << >> THEN Undefined ELSE s[Len(s)]

\* C14: with a secret configured, a delivery whose Authorization header is
\* absent or does not match is answered 401 and changes neither the ledger nor
\* a subscription; with no secret configured the same delivery is processed.
C14_AuthorizationGate ==
  [][last'.op = "delivery" =>
       LET secret == last'.arg.secret
           header == last'.arg.authorization
           event == last'.arg.event
       IN /\ (secret # << >> /\ (header = << >> \/ Credential(header) # Credential(secret)))
               => /\ resp' = Response(401, "unauthorized", NoShape)
                  /\ payments' = payments
                  /\ subs' = subs
          /\ secret = << >>
               => /\ resp' = WhResponse(event)
                  /\ payments' = WhPayments(payments, event, last'.now)
                  /\ subs' = WhSubs(subs, event, last'.now)]_vars

\* an EXPIRATION was delivered with a wrong header while a secret was
\* configured, and the subscription is still active
C14_Witness ==
  /\ last.op = "delivery"
  /\ last.arg.secret # << >>
  /\ last.arg.authorization = <<"wrong">>
  /\ last.arg.event.type = "EXPIRATION"
  /\ resp.code = 401
  /\ LastSub # NullDoc /\ LastSub.status = "active"

-----------------------------------------------------------------------------
(* Activate: validation and plan selection, C15 - C19 *)

\* the body lacks a required field, or its amount is not a finite
\* non-negative number, or its currency is empty
Inadmissible(body) ==
  \/ body.productId = NoProduct
  \/ body.transactionId \in {Undefined, ""}
  \/ body.provider \in {Undefined, ""}
  \/ body.platform \in {Undefined, ""}
  \/ body.amountCents = UndefinedNum
  \/ body.amountCents < 0
  \/ body.currency \in {Undefined, ""}

\* C15: an activate call that lacks productId, transactionId, provider or
\* platform, or whose amountCents is not a finite non-negative number, or
\* whose currency is empty, is answered 400 and changes neither the ledger nor
\* the subscription.
C15_InvalidActivateRejected ==
  [][(last'.op \in ActivateOps /\ Inadmissible(last'.arg))
     => /\ resp'.code = 400
        /\ payments' = payments
        /\ subs' = subs]_vars

\* an activate call that carries every field validation asks for and a price
\* of zero (a trial or promotional activation)
ZeroPriced(r) ==
  r.op \in ActivateOps /\ ~Inadmissible(r.arg) /\ r.arg.amountCents = 0

\* C16: a price of zero is a valid amount. An otherwise valid activate call
\* with amountCents = 0 is admitted: it is answered with the subscription, the
\* ledger holds its transaction with amount 0, and the subscription is active.
C16_ZeroAmountAdmitted ==
  ZeroPriced(last)
    => /\ resp.code = 200
       /\ FindOnePayment(payments, last.arg.transactionId) # NullDoc
       /\ FindOnePayment(payments, last.arg.transactionId).amountCents = 0
       /\ LastSub # NullDoc
       /\ LastSub.status = "active"

-----------------------------------------------------------------------------
(* Plan and provider derivation: C17 - C20 *)

\* the product id holds the marker
Marked(productId, marker) == \E i \in DOMAIN productId : productId[i] = marker

\* the first marker of the fixed order that the product id holds
FirstMarker(productId) ==
  IF Marked(productId, ".monthly") THEN "monthly"
  ELSE IF Marked(productId, ".yearly") THEN "yearly"
  ELSE IF Marked(productId, ".lifetime") THEN "lifetime"
  ELSE "free"

\* C17: plan derivation looks for .monthly, then .yearly, then .lifetime, and
\* the first marker found decides; a product id with no marker, or no product
\* id, gives free. The webhook, activate and billing-history derivations give
\* the same plan for every product id.
C17_PlanDerivation ==
  last.op = "planFromProductId"
    => /\ resp.shape.webhook = FirstMarker(last.arg.productId)
       /\ resp.shape.activate = resp.shape.webhook
       /\ resp.shape.billing = resp.shape.webhook

\* a product id holding the lifetime, yearly and monthly markers, in that
\* order, was derived as monthly
C17_Witness ==
  /\ last.op = "planFromProductId"
  /\ last.arg.productId = <<".lifetime", ".yearly", ".monthly">>
  /\ resp.shape.webhook = "monthly"

\* the last request was an activate call to the current handler that was applied
AppliedActivate == last.op = "activate" /\ resp.code = 200

\* C18 as stated: for every product id that contains .yearly anywhere, the
\* plan written by activate is yearly, whatever plan the caller declares.
C18_YearlyAnywhere ==
  (AppliedActivate /\ Marked(last.arg.productId, ".yearly"))
    => LastSub.plan = "yearly"

\* C18, amended: for every product id that contains .yearly anywhere and does
\* not contain .monthly, the plan written by activate is yearly, even if the
\* caller declares plan "free" in the same request.
C18_YearlyWithoutMonthly ==
  (/\ AppliedActivate
   /\ Marked(last.arg.productId, ".yearly")
   /\ ~Marked(last.arg.productId, ".monthly"))
    => LastSub.plan = "yearly"

\* a call declaring plan "free" with the yearly marker inside its product id
\* was stored as yearly
C18_Witness ==
  /\ AppliedActivate
  /\ last.arg.plan = "free"
  /\ last.arg.productId = PYearlyInside
  /\ LastSub.plan = "yearly"

\* C19: in activate the plan the caller declares is used only when no product
\* id is present: whenever an applied call carries a product id, the stored
\* plan is the plan derived from that product id, so declaring a paid plan
\* beside a product id that does not derive it obtains nothing.
C19_DerivedPlanWins ==
  (last.op \in ActivateOps /\ resp.code = 200 /\ last.arg.productId # NoProduct)
    => LastSub.plan = planFromProductId_subscription(last.arg.productId)

\* the store string contains the word, in whatever case
Names(store, word) == \E i \in DOMAIN store : toLowerCaseTok(store[i]) = word

\* the provider the store string stands for, read off in the stated order
NamedProvider(store) ==
  IF Names(store, "play") \/ Names(store, "google") THEN "google_play"
  ELSE IF Names(store, "app_store") \/ Names(store, "apple") \/ Names(store, "ios")
    THEN "app_store"
  ELSE IF Names(store, "stripe") THEN "stripe"
  ELSE "promo"

\* C20: the provider is inferred from the store string by case-insensitive
\* containment, tried in order: play or google gives google_play; else
\* app_store, apple or ios gives app_store; else stripe gives stripe; else
\* promo. The ledger row of a purchase carries that provider and the platform
\* that follows from it (app_store: ios, google_play: android, otherwise web),
\* and the subscription carries it as its source, with promo stored as admin.
C20_ProviderInference ==
  (last.op = "webhook" /\ resp.tag = "ok")
    => LET provider == NamedProvider(last.arg.store)
           row == FindOnePayment(payments, last.arg.transaction_id)
       IN /\ row # NullDoc
          /\ row.provider = provider
          /\ row.platform = (CASE provider = "app_store" -> "ios"
                               [] provider = "google_play" -> "android"
                               [] OTHER -> "web")
          /\ LastSub # NullDoc
          /\ LastSub.source = (IF provider = "promo" THEN "admin" ELSE provider)

\* a store string naming both apple and play was recorded as Google Play on
\* Android
C20_Witness ==
  /\ last.op = "webhook"
  /\ last.arg.store = <<"apple", "PLAY">>
  /\ FindOnePayment(payments, "t1") # NullDoc
  /\ FindOnePayment(payments, "t1").provider = "google_play"
  /\ FindOnePayment(payments, "t1").platform = "android"
  /\ LastSub.source = "google_play"

-----------------------------------------------------------------------------
(* Consumer endpoints and projection: C21 - C26 *)

\* C21: resume-auto-renew and cancel-auto-renew for a user with no
\* subscription row are answered not-found, create no row and change nothing;
\* resume never creates a free-tier row.
C21_NoRowNotFound ==
  [][(last'.op \in {"cancel", "resume"} /\ FindOneSub(subs, last'.user) = NullDoc)
       => /\ resp'.code = 404
          /\ subs' = subs
          /\ payments' = payments]_vars

\* resume was called for a user without a row and there is still no row
C21_Witness ==
  /\ last.op = "resume"
  /\ resp.code = 404
  /\ LastSub = NullDoc

\* C22: resume-auto-renew on an existing row sets status to active and clears
\* canceledAt; plan, source, startedAt, renewsAt and latestPaymentId stay as
\* they were.
C22_ResumeFrame ==
  [][(last'.op = "resume" /\ resp'.code = 200)
       => LET old == FindOneSub(subs, last'.user)
              new == FindOneSub(subs', last'.user)
          IN /\ old # NullDoc
             /\ new # NullDoc
             /\ new.status = "active"
             /\ new.canceledAt = UndefinedNum
             /\ \A k \in {"userId", "plan", "source", "startedAt", "renewsAt",
                          "latestPaymentId"} : new[k] = old[k]]_vars

\* a row that holds a renewal date and a payment was resumed
C22_Witness ==
  /\ last.op = "resume"
  /\ resp.code = 200
  /\ LastSub.status = "active"
  /\ LastSub.renewsAt = MaxTime
  /\ LastSub.latestPaymentId # UndefinedNum

\* C23: switch-to-free creates or updates: with or without a row before it,
\* the user's row afterwards has plan free, status inactive, no renewsAt and
\* canceledAt stamped with the time of the call, and a second call leaves
\* plan, status and renewsAt the same.
C23_SwitchToFreeIdempotent ==
  [][(last'.op = "switchToFree")
       => LET new == FindOneSub(subs', last'.user) IN
          /\ resp'.code = 200
          /\ Cardinality(SubsOf(subs', last'.user)) = 1
          /\ new.plan = "free"
          /\ new.status = "inactive"
          /\ new.renewsAt = UndefinedNum
          /\ new.canceledAt = last'.now
          /\ last.op = "switchToFree"
               => SubView(new) = SubView(FindOneSub(subs, last'.user))]_vars

\* a subscription that held a payment was switched to free
C23_Witness ==
  /\ last.op = "switchToFree"
  /\ LastSub # NullDoc
  /\ LastSub.plan = "free"
  /\ LastSub.latestPaymentId # UndefinedNum

\* what is shown for no subscription
AbsentShape ==
  [plan |-> "free", status |-> "inactive", autoRenew |-> FALSE,
   periodEnd |-> Null, storageLimitGb |-> Null]

\* C25: with no SubscriptionState row the projection is plan free, status
\* inactive, autoRenew false, periodEnd null (and no storage allowance), so a
\* user with no row and a user whose row is free, inactive and without
\* renewsAt get the same answer from get-current-subscription.
C25_AbsentProjection ==
  (/\ last.op = "get"
   /\ \/ LastSub = NullDoc
      \/ /\ LastSub.plan = "free"
         /\ LastSub.status = "inactive"
         /\ LastSub.renewsAt = UndefinedNum)
    => resp = Response(200, "subscription", AbsentShape)

\* the subscription of a user without a row was read
C25_Witness ==
  /\ last.op = "get"
  /\ LastSub = NullDoc
  /\ resp.shape = AbsentShape

\* C26: for a row that exists, autoRenew is true exactly when the plan is
\* neither free nor lifetime and the status is active, so it is false for a
\* lifetime plan whatever the status; periodEnd is renewsAt, or null when
\* there is none.
C26_PresentProjection ==
  (resp.tag = "subscription" /\ LastSub # NullDoc)
    => /\ resp.shape.autoRenew =
            (LastSub.plan \notin {"free", "lifetime"} /\ LastSub.status = "active")
       /\ LastSub.plan = "lifetime" => resp.shape.autoRenew = FALSE
       /\ resp.shape.periodEnd =
            (IF LastSub.renewsAt # UndefinedNum THEN LastSub.renewsAt ELSE Null)

\* an active lifetime subscription was read
C26_Witness ==
  /\ last.op = "get"
  /\ LastSub # NullDoc
  /\ LastSub.plan = "lifetime"
  /\ LastSub.status = "active"
  /\ resp.shape.autoRenew = FALSE

-----------------------------------------------------------------------------
(* Overlapping requests and failing writes: C24, C27 - C29 *)

\* C24: switch-to-free always succeeds, also when two switch-to-free calls, or
\* a switch-to-free call and a first webhook delivery, for a user without a
\* row overlap: unless the datastore is down the call is answered with
\* success, and the user has exactly one row afterwards.
C24_SwitchToFreeSucceeds ==
  (last.op = "switchToFree" /\ resp.tag # "error")
    => /\ resp.code = 200
       /\ Cardinality(SubsOf(subs, last.user)) = 1

\* the requests of the kinds that write a row, once they have been answered
\* with success
Completed == {x \in inflight : x.step = "done" /\ x.req.op \notin {"cancel", "resume"}}

\* C27: in every reachable state a user has at most one SubscriptionState
\* row, and once a purchase-like or expiration delivery, an activate call or a
\* switch-to-free call has completed for a user, that user has exactly one
\* row, also when the first requests for the user overlap.
C27_OneRowPerUser ==
  /\ \A u \in Users : Cardinality(SubsOf(subs, u)) <= 1
  /\ \A x \in Completed : Cardinality(SubsOf(subs, x.req.user)) = 1

\* a first webhook purchase and a first activate call overlapped: the ledger
\* row holds the amount of the activate call, the subscription the plan of
\* the delivery, and there is one row
C27_Witness ==
  /\ \E x, y \in Completed : x.req.op = "webhook" /\ y.req.op = "activate"
  /\ Cardinality(SubsOf(subs, "u1")) = 1
  /\ FindOneSub(subs, "u1").plan = "monthly"
  /\ FindOnePayment(payments, "t1").amountCents = 499

\* the ledger and the subscriptions after request r has run alone, from
\* start to answer, on st = <<ledger, subscriptions>>
Alone(r, st) ==
  LET P == st[1]
      S == st[2]
      seen == FindOneSub(S, r.user)
  IN CASE r.op = "webhook" ->
            <<WhPayments(P, r.arg, r.now), WhSubs(S, r.arg, r.now)>>
       [] r.op = "activate" ->
            <<ActPayments(P, r.user, r.arg, r.now),
              ActSubs(S, ActPayments(P, r.user, r.arg, r.now), r.user, r.arg, r.now)>>
       [] r.op \in {"cancel", "resume"} /\ seen = NullDoc -> st
       [] OTHER -> <<P, SaveSub(S, seen, RaceDoc(r, seen))>>

\* what the requests R can leave when they run one after the other, in any
\* order
RECURSIVE OneByOne(_, _)
OneByOne(R, st) ==
  IF R = {} THEN {st}
  ELSE UNION {OneByOne(R \ {r}, Alone(r, st)) : r \in R}

\* C28: every write path is one atomic find-and-update keyed by userId or
\* transactionId, so when requests of one user overlap (webhook deliveries,
\* activate, cancel-auto-renew, resume-auto-renew, switch-to-free) and all
\* have been answered, the ledger and the SubscriptionState are what running
\* the requests one after the other, in some order, leaves.
C28_OverlapSerializable ==
  (inflight # {} /\ \A x \in inflight : x.step = "done")
    => <<payments, subs>> \in OneByOne({x.req : x \in inflight}, <<{}, {}>>)

\* C29: a failure during processing leaves no partly applied state: when a
\* datastore write of a purchase-like webhook event or of an activate call
\* fails, the ledger and the SubscriptionState are what they were before the
\* request; here the request is the only one made, so both are empty.
C29_FailureLeavesNothing ==
  \A x \in inflight :
    (inflight = {x} /\ x.step = "failed" /\ x.req.op \in {"webhook", "activate"})
      => payments = {} /\ subs = {}

-----------------------------------------------------------------------------
(* Out-of-order deliveries: C30 *)

\* the plan and the status that a delivery aims at
TargetView(event) ==
  IF event.type \in PurchaseTypes
    THEN <<FirstMarker(event.product_id), "active">>
  ELSE IF RefundLike(event) THEN <<"free", "inactive">>
  ELSE IF event.type = "CANCELLATION"
    THEN <<FirstMarker(event.product_id), "canceled">>
  ELSE <<"free", "expired">>

\* C30: deliveries for one user are processed in any order without an error,
\* and after any sequence of them the user's plan and status are the target
\* values of the last processed event that was not ignored, whatever came
\* before: such an event leaves its own targets, an ignored or skipped one
\* leaves plan and status as they were.
C30_LastEventDecides ==
  [][(last'.op = "webhook")
       => /\ resp'.code = 200
          /\ IF last'.user # Undefined /\ Recognised(last'.arg.type)
             THEN LET new == FindOneSub(subs', last'.user) IN
                  /\ new # NullDoc
                  /\ <<new.plan, new.status>> = TargetView(last'.arg)
             ELSE subs' = subs]_vars

\* an EXPIRATION was processed after a paid RENEWAL had been recorded: the
\* subscription is free and expired
C30_Witness ==
  /\ last.op = "webhook"
  /\ last.arg.type = "EXPIRATION"
  /\ last.user = "u1"
  /\ LastSub.plan = "free"
  /\ LastSub.status = "expired"
  /\ \E p \in payments : p.rawPayload.type = "RENEWAL" /\ p.currency = "EUR"

-----------------------------------------------------------------------------
(* Back-reference, entitlement and equivalence: C31 - C34 *)

\* C31: after a purchase-like action that carried a transactionId has changed
\* a user's SubscriptionState, through the webhook or through activate, the
\* row's latestPaymentId refers to the PaymentRecord of that transactionId,
\* the payment that last changed the state.
C31_LatestPaymentIsLast ==
  DeliveredTx # Undefined
    => /\ LastSub # NullDoc
       /\ FindOnePayment(payments, DeliveredTx) # NullDoc
       /\ LastSub.latestPaymentId = FindOnePayment(payments, DeliveredTx).id

\* C32: after a voluntary cancellation (a webhook CANCELLATION that is not
\* refund-like, or a cancel-auto-renew call) of an active paid subscription
\* whose renewsAt is still ahead, the user keeps the entitlement callers gate
\* on: the row's status is still active.
C32_EntitledUntilRenewsAt ==
  [][LET old == FindOneSub(subs, last'.user)
         new == FindOneSub(subs', last'.user)
     IN (/\ \/ /\ last'.op \in WebhookOps /\ last'.user # Undefined
               /\ last'.arg.type = "CANCELLATION" /\ ~RefundLike(last'.arg)
            \/ last'.op = "cancel" /\ resp'.code = 200
         /\ old # NullDoc
         /\ old.status = "active"
         /\ old.plan # "free"
         /\ old.renewsAt # UndefinedNum
         /\ last'.now < old.renewsAt)
        => new.status = "active"
    ]_vars

\* the row an INITIAL_PURCHASE delivery for u1 leaves, started from this state
AfterPurchase(productId, exp, now) ==
  FindOneSub(WhSubs(subs, Event("INITIAL_PURCHASE", "u1", productId, "t1", AppStore,
                                Undefined, exp, UndefinedNum, Undefined,
                                UndefinedNum), now), "u1")

\* the row an activate call of u1 leaves, started from this state
AfterActivate(productId, exp, now) ==
  LET body == Body(Undefined, exp, 499, "usd", productId, "t1", "ios", "app_store")
  IN FindOneSub(ActSubs(subs, ActPayments(payments, "u1", body, now), "u1", body,
                        now), "u1")

\* C33: activate is equivalent to a purchase-like webhook event: from any
\* state, for the same user, product id and expiry, an activate call and an
\* INITIAL_PURCHASE delivery leave the subscription row with the same plan,
\* status, renewsAt and canceledAt, for every product id, lifetime and
\* marker-less ones included.
C33_ActivateAsPurchase ==
  \A productId \in {PMonthly, PYearly, PLifetime, PPlain},
     exp \in Times \cup {UndefinedNum}, now \in Times :
    \A k \in {"plan", "status", "renewsAt", "canceledAt"} :
      AfterActivate(productId, exp, now)[k] = AfterPurchase(productId, exp, now)[k]

\* C34: in every reachable state a subscription row whose plan is lifetime or
\* free has no renewsAt (the field is absent), so the projection of such a row
\* has periodEnd = null.
C34_NoRenewalForLifetimeOrFree ==
  \A d \in subs :
    d.plan \in {"lifetime", "free"}
      => /\ d.renewsAt = UndefinedNum
         /\ toClientShape(d).periodEnd = Null

-----------------------------------------------------------------------------
(* Consumer calls, the ledger and the users: C35 - C39 *)

\* deliveries of every class; the purchase comes with and without a
\* transaction id, the refund and the cancellation for either user
UserEvents ==
  {Event("INITIAL_PURCHASE", "u1", PMonthly, tx, AppStore, Undefined, MaxTime,
         UndefinedNum, Undefined, UndefinedNum) : tx \in {"t1", Undefined}}
  \cup
  {Event(t, u, NoProduct, Undefined, AppStore, Undefined, UndefinedNum,
         UndefinedNum, Undefined, UndefinedNum) :
     t \in {"REFUND", "CANCELLATION"}, u \in Users}
  \cup
  {Event(t, "u1", NoProduct, Undefined, AppStore, Undefined, UndefinedNum,
         UndefinedNum, Undefined, UndefinedNum) : t \in {"EXPIRATION", "TRANSFER"}}

\* two users, the webhook and every subscription endpoint; both users present
\* the same transaction id to activate
NextUsers ==
  \/ \E event \in UserEvents : Free(Webhook(event, 1))
  \/ \E u \in Users :
       Free(Activate(u, Body(Undefined, MaxTime, 499, "usd", PYearly, "t1", "ios",
                             "app_store"), 1))
  \/ \E u \in Users : Free(GetSubscription(u))
  \/ \E u \in Users : Free(CancelAutoRenew(u, [periodEnd |-> UndefinedNum], 1))
  \/ \E u \in Users : Free(ResumeAutoRenew(u))
  \/ \E u \in Users : Free(SwitchToFree(u, 1))

SpecUsers == Init /\ [][NextUsers]_vars

\* C35: only purchase-like actions write the ledger: refund-like,
\* cancellation, expiration and ignored deliveries, and the get,
\* cancel-auto-renew, resume-auto-renew and switch-to-free calls, leave it as
\* it was; a purchase-like delivery without a transaction id leaves it as it
\* was too and still makes the subscription active.
C35_OnlyPurchasesWriteLedger ==
  [][/\ (\/ last'.op \in WebhookOps /\ last'.arg.type \notin PurchaseTypes
         \/ last'.op \in {"get", "cancel", "resume", "switchToFree"})
          => payments' = payments
     /\ (/\ last'.op \in WebhookOps /\ last'.user # Undefined
         /\ last'.arg.type \in PurchaseTypes
         /\ last'.arg.transaction_id = Undefined)
          => /\ payments' = payments
             /\ FindOneSub(subs', last'.user) # NullDoc
             /\ FindOneSub(subs', last'.user).status = "active"
    ]_vars

\* a purchase without a transaction id made the subscription active while the
\* ledger holds one payment, recorded earlier
C35_Witness ==
  /\ Delivered
  /\ last.arg.type \in PurchaseTypes
  /\ last.arg.transaction_id = Undefined
  /\ LastSub.status = "active"
  /\ LastSub.startedAt = 1
  /\ Cardinality(payments) = 1

\* C36: a subscription endpoint acts on the caller's identity only: a get,
\* activate, cancel-auto-renew, resume-auto-renew or switch-to-free call made
\* as one user leaves the subscription row of every other user as it was, and
\* the answer of get is the projection of the caller's own row.
C36_CallerOnly ==
  [][(last'.op \in {"get", "activate", "cancel", "resume", "switchToFree"}
      /\ last'.user # Undefined)
       => /\ \A B \in Users \ {last'.user} : SubsOf(subs', B) = SubsOf(subs, B)
          /\ \A d \in subs' \ subs : d.userId = last'.user
          /\ last'.op = "get"
               => resp' = Response(200, "subscription",
                                   toClientShape(FindOneSub(subs, last'.user)))
    ]_vars

\* u2 activated with the transaction id u1 had used, while u1 holds a
\* canceled row
C36_Witness ==
  /\ last.op = "activate"
  /\ last.user = "u2"
  /\ resp.code = 200
  /\ FindOneSub(subs, "u2") # NullDoc
  /\ FindOneSub(subs, "u2").status = "active"
  /\ FindOneSub(subs, "u1") # NullDoc
  /\ FindOneSub(subs, "u1").status = "canceled"
  /\ FindOneSub(subs, "u1").latestPaymentId # UndefinedNum

\* C37: revoked entitlement is not granted again without a purchase: a
\* cancel-auto-renew, resume-auto-renew or switch-to-free call on a row whose
\* plan is free does not leave status active, and a row that was not active
\* becomes active only by a purchase-like event, an applied activate call, or
\* the resume of a row whose status is canceled.
C37_NoRegrantWithoutPurchase ==
  [][LET old == FindOneSub(subs, last'.user)
         new == FindOneSub(subs', last'.user)
     IN (last'.user # Undefined /\ new # NullDoc /\ new.status = "active")
        => /\ (/\ last'.op \in {"cancel", "resume", "switchToFree"}
                /\ old # NullDoc /\ old.status \in {"inactive", "expired"})
                => old.plan # "free"
           /\ (old = NullDoc \/ old.status # "active")
                => \/ /\ last'.op \in WebhookOps
                      /\ last'.arg.type \in PurchaseTypes
                   \/ last'.op \in ActivateOps /\ resp'.tag = "subscription"
                   \/ last'.op = "resume" /\ old # NullDoc /\ old.status = "canceled"
    ]_vars

\* C38: whenever a subscription row has a latestPaymentId, the payment it
\* refers to has the userId of the row; an activate call by one user with a
\* transaction id first recorded for another does not leave the caller active
\* with a reference to the other user's payment.
C38_PaymentOfSameUser ==
  \A d \in subs :
    d.latestPaymentId # UndefinedNum
      => \E p \in payments : p.id = d.latestPaymentId /\ p.userId = d.userId

\* a cancel-auto-renew call c without periodEnd found an active paid row, and
\* the resume-auto-renew call r found the row as c had saved it
CancelThenResume(c, r) ==
  /\ c.req.op = "cancel" /\ c.step = "done"
  /\ c.req.arg.periodEnd = UndefinedNum
  /\ c.seen # NullDoc
  /\ c.seen.status = "active"
  /\ c.seen.plan # "free"
  /\ r.req.op = "resume"
  /\ r.seen = CancelDoc(c.seen, c.req.arg, c.req.now)

\* C39: cancel-auto-renew without periodEnd followed by resume-auto-renew is a
\* round trip on an active paid subscription: when nothing else wrote the row
\* in between, the row after the resume has the plan, status (active),
\* renewsAt, source and latestPaymentId it had before the cancel, canceledAt
\* is absent and the projection's autoRenew is what it was, true for a plan
\* that renews.
C39_CancelResumeRoundTrip ==
  [][\A c \in inflight, r \in inflight :
       (/\ CancelThenResume(c, r)
        /\ r.step = "begun"
        /\ FindOneSub(subs, r.req.user) = r.seen
        /\ last' = r.req
        /\ resp'.code = 200)
       => LET new == FindOneSub(subs', r.req.user) IN
          /\ new # NullDoc
          /\ \A k \in {"plan", "status", "renewsAt", "source", "latestPaymentId"} :
               new[k] = c.seen[k]
          /\ new.status = "active"
          /\ new.canceledAt = UndefinedNum
          /\ resp'.shape.autoRenew = toClientShape(c.seen).autoRenew
          /\ c.seen.plan # "lifetime" => resp'.shape.autoRenew
    ]_vars

\* a yearly subscription started by activate went through the round trip
C39_Witness ==
  \E c \in inflight, r \in inflight :
    /\ CancelThenResume(c, r)
    /\ r.step = "done"
    /\ last = r.req
    /\ resp.code = 200
    /\ c.seen.plan = "yearly"
    /\ c.seen.renewsAt = MaxTime
    /\ c.seen.latestPaymentId # UndefinedNum
    /\ LastSub.status = "active"
    /\ LastSub.latestPaymentId = c.seen.latestPaymentId
    /\ resp.shape.autoRenew

====
